---- MODULE Spec2Model ----
(***************************************************************************)
(* Model of the two React form components of the repository:               *)
(*   App                  (src/unnamed/part_000, "Immunization Record      *)
(*                         Builder"), and                                  *)
(*   DiagnosticReportForm (src/src/working-with-global.js).                *)
(* A behaviour is one browser session with one of the two components       *)
(* mounted.  User-entered texts are sequences of one-character strings so  *)
(* that trim() is computed, not assumed.  An optional value (a field that  *)
(* is undefined / null / spread away in the source) is the empty sequence  *)
(* None, a present value x is Some(x).                                     *)
(***************************************************************************)
EXTENDS Naturals, Integers, Sequences, FiniteSets, TLC

\* ------------------------------------------------------------------ bounds
MaxImms == 2
MaxFiles == 2
MaxBuilds == 2
MaxRows == 2
MaxPicks == 1
MaxSubmits == 1
MaxEdits == 2

\* ------------------------------------------------------------- JS helpers
None == <<>>
Some(x) == <<x>>
IsSome(m) == Len(m) = 1
Get(m) == m[1]

Null == 0

Range(s) == {s[i] : i \in 1..Len(s)}

\* JS truthiness of a string held as a character sequence / as a TLA+ string
Truthy(s) == Len(s) > 0
TruthyStr(s) == s # ""

Whitespace == {" ", "\t", "\n"}

RECURSIVE TrimStart(_)
TrimStart(s) ==
  IF Len(s) > 0 /\ s[1] \in Whitespace THEN TrimStart(Tail(s)) ELSE s

RECURSIVE TrimEnd(_)
TrimEnd(s) ==
  IF Len(s) > 0 /\ s[Len(s)] \in Whitespace
  THEN TrimEnd(SubSeq(s, 1, Len(s) - 1))
  ELSE s

\* String.prototype.trim
Trim(s) == TrimEnd(TrimStart(s))

\* variant: filter((_, idx) => idx < i), which also drops what follows i
FilterFromIndex(s, i) ==
  [j \in 1..(IF i >= 0 /\ i < Len(s) THEN i ELSE Len(s)) |-> s[j]]

\* Array.prototype.filter((_, idx) => idx !== i), i zero-based
FilterOutIndex(s, i) ==
  [j \in 1..(Len(s) - (IF i >= 0 /\ i < Len(s) THEN 1 ELSE 0)) |->
     IF j <= i THEN s[j] ELSE s[j + 1]]

\* All sequences over S of length lo..hi
RECURSIVE SeqsOfLen(_, _)
SeqsOfLen(S, n) ==
  IF n = 0 THEN {<<>>}
  ELSE {Append(s, x) : s \in SeqsOfLen(S, n - 1), x \in S}

SeqsUpTo(S, lo, hi) == UNION {SeqsOfLen(S, n) : n \in lo..hi}

IsInjective(s) == \A i, j \in 1..Len(s) : s[i] = s[j] => i = j

\* ------------------------------------------------------- constants of App
PLACEHOLDER_PDF_B64 == "JVBERi0xLjQKJeLjz9MK"

SNOMED_IMM_RECORD ==
  [system |-> "http://snomed.info/sct", code |-> "41000179103",
   display |-> "Immunization record"]

PRACTITIONERS ==
  << [id |-> "prac-1", name |-> "Dr. A. Verma", qualification |-> "MBBS, MD"],
     [id |-> "prac-2", name |-> "Dr. B. Rao", qualification |-> "MBBS, MS"] >>

\* the identifier returned by the k-th call of uuidv4 in the session: calls
\* return pairwise distinct values
uuidv4(k) == k

Urn(id) == <<"urn:uuid:", id>>

\* ---------------------------------------------------------- input domains
EmptyText == <<>>
BlankText == <<" ">>
BCG == <<"B", "C", "G">>
TitleDefault ==
  <<"I","m","m","u","n","i","z","a","t","i","o","n"," ","R","e","c","o","r","d">>
EncText == <<"O", "P", "D">>
CustText == <<"X", " ", "H", "o", "s", "p">>
RecText == <<"M", "M", "R">>

DigitChars == <<"0", "1", "2", "3", "4", "5", "6", "7", "8", "9">>


\* arr.filter(Boolean)
filterBoolean(arr) ==
  LET kept == SelectSeq(arr, IsSome)
  IN [j \in 1..Len(kept) |-> Get(kept[j])]

\* --------------------------------------------------------- ABHA addresses
(***************************************************************************)
(* An element of a roster array is [kind |-> typeof-like tag, ...]:        *)
(*   "null", "string" with s, "number" with n, "object" with obj, a record *)
(*   of the fields the object has.  Strings are sequences of characters.   *)
(* A field of the roster record that may hold the array is                 *)
(*   [kind |-> "absent"], [kind |-> "string"] (present, not an array) or   *)
(*   [kind |-> "array", items |-> the elements].                           *)
(***************************************************************************)
MaxAddrs == 3

\* !item
falsy(item) ==
  \/ item.kind = "null"
  \/ item.kind = "string" /\ item.s = <<>>
  \/ item.kind = "number" /\ item.n = 0

\* the keys that hold a boolean; the other keys hold a string
BooleanKeys == {"isPrimary", "primary"}

\* truthiness of obj[key]
truthyField(obj, key) ==
  /\ key \in DOMAIN obj
  /\ IF key \in BooleanKeys THEN obj[key] ELSE obj[key] # <<>>

\* the order in which the keys of an object were written
KeyOrder == <<"address", "isPrimary", "value", "label", "primary">>

\* a double quote inside a JSON string is preceded by a backslash
RECURSIVE escapeQuotes(_)
escapeQuotes(str) ==
  IF Len(str) = 0 THEN <<>>
  ELSE (IF str[1] = "\"" THEN <<"\\", "\"">> ELSE <<str[1]>>)
         \o escapeQuotes(Tail(str))

\* JSON.stringify of the value of obj[key]
stringifyValue(obj, key) ==
  IF key \in BooleanKeys
  THEN IF obj[key] THEN <<"t", "r", "u", "e">> ELSE <<"f", "a", "l", "s", "e">>
  ELSE <<"\"">> \o escapeQuotes(obj[key]) \o <<"\"">>

KeyChars(key) ==
  CASE key = "address" -> <<"a", "d", "d", "r", "e", "s", "s">>
    [] key = "isPrimary" -> <<"i", "s", "P", "r", "i", "m", "a", "r", "y">>
    [] key = "value" -> <<"v", "a", "l", "u", "e">>
    [] key = "label" -> <<"l", "a", "b", "e", "l">>
    [] key = "primary" -> <<"p", "r", "i", "m", "a", "r", "y">>

\* JSON.stringify(obj)
RECURSIVE stringifyMembers(_, _, _)
stringifyMembers(obj, k, first) ==
  IF k > Len(KeyOrder) THEN <<>>
  ELSE IF KeyOrder[k] \notin DOMAIN obj THEN stringifyMembers(obj, k + 1, first)
  ELSE (IF first THEN <<>> ELSE <<",">>)
         \o <<"\"">> \o KeyChars(KeyOrder[k]) \o <<"\"", ":">>
         \o stringifyValue(obj, KeyOrder[k])
         \o stringifyMembers(obj, k + 1, FALSE)

JSONstringify(obj) == <<"{">> \o stringifyMembers(obj, 1, TRUE) \o <<"}">>

\* the collation of the characters that occur in values: punctuation, then
\* digits, then letters, an upper-case letter right after its lower-case one
Collation ==
  <<" ", ",", ":", "\"", "(", ")", "{", "}", "@", "\\">> \o DigitChars
    \o <<"a", "b", "d", "e", "f", "i", "l", "m", "p", "P", "r", "s", "t",
         "u", "v", "x", "y">>

CollationRank(ch) == CHOOSE i \in 1..Len(Collation) : Collation[i] = ch

\* a.localeCompare(b): negative, zero or positive
localeCompare(a, b) ==
  LET differ == {i \in 1..Len(a) : i <= Len(b) /\ a[i] # b[i]}
  IN IF differ = {}
     THEN IF Len(a) < Len(b) THEN -1 ELSE IF Len(a) > Len(b) THEN 1 ELSE 0
     ELSE LET i == CHOOSE i \in differ : \A j \in differ : i <= j
          IN IF CollationRank(a[i]) < CollationRank(b[i]) THEN -1 ELSE 1

numberOf(flag) == IF flag THEN 1 ELSE 0

\* variant: the comparator looks at the primary flag only
compareAbhaPrimaryOnly(a, b) == numberOf(b.primary) - numberOf(a.primary)

\* the comparator of out.sort
compareAbha(a, b) ==
  IF numberOf(b.primary) - numberOf(a.primary) # 0
  THEN numberOf(b.primary) - numberOf(a.primary)
  ELSE localeCompare(a.value, b.value)

\* Array.prototype.sort with compareAbha: a stable sort
insertSorted(sorted, e) ==
  LET k == Cardinality({i \in 1..Len(sorted) : compareAbha(sorted[i], e) <= 0})
  IN SubSeq(sorted, 1, k) \o <<e>> \o SubSeq(sorted, k + 1, Len(sorted))

RECURSIVE sort(_)
sort(arr) ==
  IF Len(arr) = 0 THEN <<>>
  ELSE insertSorted(sort(SubSeq(arr, 1, Len(arr) - 1)), arr[Len(arr)])

PrimarySuffix == <<" ", "(", "p", "r", "i", "m", "a", "r", "y", ")">>

\* App: the callback of raw.map; None is null
abhaItem(item) ==
  IF falsy(item) THEN None
  ELSE IF item.kind = "string"
       THEN Some([value |-> item.s, label |-> item.s, primary |-> FALSE])
  ELSE IF item.kind = "object"
       THEN IF truthyField(item.obj, "address")
            THEN Some([value |-> item.obj.address,
                       label |-> IF truthyField(item.obj, "isPrimary")
                                 THEN item.obj.address \o PrimarySuffix
                                 ELSE item.obj.address,
                       primary |-> truthyField(item.obj, "isPrimary")])
            ELSE Some([value |-> JSONstringify(item.obj),
                       label |-> JSONstringify(item.obj),
                       primary |-> truthyField(item.obj, "isPrimary")])
  ELSE None

\* App: normalizeAbhaAddresses(patientObj)
normalizeAbhaAddresses(patientObj) ==
  LET raw == IF patientObj.additional_attributes.kind = "array"
             THEN patientObj.additional_attributes.items
             ELSE IF patientObj.abha_addresses.kind = "array"
                  THEN patientObj.abha_addresses.items
                  ELSE <<>>
  IN sort(filterBoolean([i \in 1..Len(raw) |-> abhaItem(raw[i])]))

\* DiagnosticReportForm: the callback of raw.map
diagAbhaItem(item) ==
  IF falsy(item) THEN None
  ELSE IF item.kind = "string"
       THEN Some([value |-> item.s, label |-> item.s, primary |-> FALSE])
  ELSE IF item.kind = "object"
       THEN IF truthyField(item.obj, "address")
            THEN Some([value |-> item.obj.address,
                       label |-> IF truthyField(item.obj, "isPrimary")
                                 THEN item.obj.address \o PrimarySuffix
                                 ELSE item.obj.address,
                       primary |-> truthyField(item.obj, "isPrimary")])
            ELSE Some([value |-> JSONstringify(item.obj),
                       label |-> JSONstringify(item.obj),
                       primary |-> truthyField(item.obj, "isPrimary")])
  ELSE None

\* DiagnosticReportForm: normalizeAbhaAddresses(patientObj)
diagNormalizeAbhaAddresses(patientObj) ==
  LET raw == IF patientObj.additional_attributes.kind = "array"
             THEN patientObj.additional_attributes.items
             ELSE IF patientObj.abha_addresses.kind = "array"
                  THEN patientObj.abha_addresses.items
                  ELSE <<>>
  IN sort(filterBoolean([i \in 1..Len(raw) |-> diagAbhaItem(raw[i])]))

AddrA == <<"a", "@", "x">>
AddrB == <<"b", "@", "x">>

Absent == [kind |-> "absent"]
NotAnArray == [kind |-> "string"]
ArrayOf(items) == [kind |-> "array", items |-> items]

\* the roster served by /patients.json
AddrD == <<"d", "@", "x">>

Roster ==
  << [name |-> "Asha Singh", gender |-> <<"F">>, dob |-> "15-06-1990",
      mrn |-> "MRN-1",
      additional_attributes |->
        ArrayOf(<<[kind |-> "string", s |-> AddrD],
                  [kind |-> "object", obj |-> [address |-> AddrA, isPrimary |-> TRUE]]>>),
      abha_addresses |-> Absent],
     [name |-> "Ravi Kumar", gender |-> <<"m", "a", "l", "e">>, dob |-> "1985-01-02",
      mrn |-> "MRN-2",
      additional_attributes |-> Absent,
      abha_addresses |-> ArrayOf(<<[kind |-> "string", s |-> AddrB]>>)] >>

StatusOptions == {"preliminary", "final", "amended", "entered-in-error"}

\* File objects offered by the file picker
FileA == [name |-> "a.pdf", type |-> "application/pdf", bytes |-> "QQ=="]
FileB == [name |-> "b.jpg", type |-> "image/jpeg", bytes |-> "Qg=="]
PickableFiles == {FileA, FileB}

\* one pick of the file input: distinct files, in the picker's order
FileLists == {s \in SeqsUpTo(PickableFiles, 0, MaxFiles) : IsInjective(s)}

VaccineTexts == {EmptyText, BlankText, BCG}

NewImmunization(v) ==
  [vaccineText |-> v, occurrenceDate |-> "", status |-> "completed",
   lotNumber |-> <<>>]

ImmunizationLists ==
  {[i \in 1..Len(s) |-> NewImmunization(s[i])] :
     s \in SeqsUpTo(VaccineTexts, 1, MaxImms)}

\* ---------------------------------------------------------------- state
VARIABLES
  mounted,             \* the component rendered in this session
  \* App (immunization form)
  patients,            \* useState([]) roster
  selectedPatientIdx,
  status,
  title,
  encounterText,
  custodianName,
  immunizations,
  immRecText,
  files,
  filePreviewNames,
  fileInputValue,      \* value of the file input, "" when empty or cleared
  abhaOptions,         \* the normalized addresses of the selected patient
  selectedAbha,        \* the value of the address chosen, "" as <<>>
  edits,               \* number of form edits made so far in the session
  jsonOut,             \* None for "", Some(bundle) for the serialized bundle
  alerts,              \* the alert() calls made so far
  uuidCalls,           \* number of uuidv4() calls made so far
  readsStarted,        \* number of FileReader.readAsDataURL calls so far
  calls,               \* the onBuildBundle invocations, by order of click
  jsonOutSetBy,        \* the invocations that called setJsonOut, in order
  \* DiagnosticReportForm
  patientsList,        \* useState([]) roster
  diagSelectedPatientIdx,  \* selectedPatientIdx of this component
  abhaList,            \* the normalized addresses of the selected patient
  diagSelectedAbha,    \* selectedAbha of this component
  patient,             \* the patient form state used in the bundle
  diagCodeText,
  issuedDate,
  results,
  specimens,
  attachments,
  errorMsg,
  consoleLog,          \* None, or Some(bundle) last written by console.log
  picks,               \* the handleAttachmentsChange invocations, in order
  submits,             \* number of handleSubmit calls so far
  \* module-level helper functions called on their own
  arg,                 \* the argument (and environment) of the call
  result               \* the values returned so far, in order

appVars ==
  <<patients, selectedPatientIdx, status, title, encounterText, custodianName,
    immunizations, immRecText, files, filePreviewNames, fileInputValue, abhaOptions,
    selectedAbha, edits, jsonOut, alerts, uuidCalls, readsStarted, calls,
    jsonOutSetBy>>

selectionVars == <<patientsList, diagSelectedPatientIdx, abhaList, diagSelectedAbha>>

diagVars ==
  <<selectionVars, patient, diagCodeText, issuedDate, results, specimens,
    attachments, errorMsg, consoleLog, picks, submits>>

callVars == <<arg, result>>

vars == <<mounted, appVars, diagVars, callVars>>

formVars ==
  <<patients, selectedPatientIdx, status, title, encounterText, custodianName,
    immunizations, immRecText, files, filePreviewNames, fileInputValue, abhaOptions,
    selectedAbha, edits>>

\* selectedPatient = useMemo(() => idx >= 0 ? patients[idx] : null)
selectedPatient ==
  IF selectedPatientIdx >= 0 /\ selectedPatientIdx < Len(patients)
  THEN Some(patients[selectedPatientIdx + 1])
  ELSE None

\* variant: addresses already listed are kept and the new ones appended
abhasOfAppended(sel) ==
  abhaOptions \o (IF IsSome(sel) THEN normalizeAbhaAddresses(Get(sel)) ELSE <<>>)

\* the list the selection effect stores: [] when no patient is selected
abhasOf(sel) == IF IsSome(sel) THEN normalizeAbhaAddresses(Get(sel)) ELSE <<>>

\* abhas.length ? abhas[0].value : ""
firstValue(abhas) == IF Len(abhas) > 0 THEN abhas[1].value ELSE <<>>

\* the state captured by the closure of onBuildBundle for one render
Form ==
  [selectedPatient |-> selectedPatient, status |-> status, title |-> title,
   encounterText |-> encounterText, custodianName |-> custodianName,
   immunizations |-> immunizations, immRecText |-> immRecText,
   files |-> files, selectedAbha |-> selectedAbha]

\* -------------------------------------------------------------- validation
ErrPatient == "Select a patient (required)."
ErrStatus == "Status is required."
ErrTitle == "Title is required."
ErrContent ==
  "Add at least one immunization, or an immunization recommendation, or upload at least one document."

\* variant: the vaccine text is not trimmed
hasImmsUntrimmed(f) ==
  /\ Len(f.immunizations) > 0
  /\ \E i \in 1..Len(f.immunizations) : Truthy(f.immunizations[i].vaccineText)

hasImms(f) ==
  /\ Len(f.immunizations) > 0
  /\ \E i \in 1..Len(f.immunizations) :
       /\ Truthy(f.immunizations[i].vaccineText)
       /\ Truthy(Trim(f.immunizations[i].vaccineText))

hasImmRec(f) == Truthy(f.immRecText) /\ Truthy(Trim(f.immRecText))

hasDocs(f) == Len(f.files) > 0

\* variant: validation returns at its first violation
validateFirstOnly(f) ==
  IF ~IsSome(f.selectedPatient) THEN <<ErrPatient>>
  ELSE IF ~TruthyStr(f.status) THEN <<ErrStatus>>
  ELSE IF ~Truthy(f.title) \/ ~Truthy(Trim(f.title)) THEN <<ErrTitle>>
  ELSE IF ~(hasImms(f) \/ hasImmRec(f) \/ hasDocs(f)) THEN <<ErrContent>>
  ELSE <<>>

\* validateBeforeBuild over the captured form f: the errors, in push order
validateBeforeBuild(f) ==
  (IF ~IsSome(f.selectedPatient) THEN <<ErrPatient>> ELSE <<>>)
  \o (IF ~TruthyStr(f.status) THEN <<ErrStatus>> ELSE <<>>)
  \o (IF ~Truthy(f.title) \/ ~Truthy(Trim(f.title)) THEN <<ErrTitle>> ELSE <<>>)
  \o (IF ~(hasImms(f) \/ hasImmRec(f) \/ hasDocs(f)) THEN <<ErrContent>> ELSE <<>>)

\* ------------------------------------------------------------ identifiers
\* the "// ids" block of onBuildBundle, run when u uuidv4 calls were made before
AllocateIds(f, u) ==
  LET e == IF Truthy(f.encounterText) THEN 1 ELSE 0
      c == IF Truthy(f.custodianName) THEN 1 ELSE 0
      n == Len(f.immunizations)
      r == IF Truthy(f.immRecText) THEN 1 ELSE 0
      m == IF Len(f.files) > 0 THEN Len(f.files) ELSE 1
      b == u + 3 + e + c + n + r
  IN [compId |-> uuidv4(u + 1),
      patientId |-> uuidv4(u + 2),
      practitionerId |-> uuidv4(u + 3),
      encounterId |-> IF e = 1 THEN uuidv4(u + 4) ELSE Null,
      custodianId |-> IF c = 1 THEN uuidv4(u + 3 + e + 1) ELSE Null,
      immIds |-> [j \in 1..n |-> uuidv4(u + 3 + e + c + j)],
      immRecId |-> IF r = 1 THEN uuidv4(b) ELSE Null,
      docBinaryIds |-> [j \in 1..m |-> uuidv4(b + j)],
      docRefIds |-> [j \in 1..m |-> uuidv4(b + m + j)]]

\* how many uuidv4 calls that block makes
IdsAllocated(f) ==
  3 + (IF Truthy(f.encounterText) THEN 1 ELSE 0)
    + (IF Truthy(f.custodianName) THEN 1 ELSE 0)
    + Len(f.immunizations)
    + (IF Truthy(f.immRecText) THEN 1 ELSE 0)
    + 2 * (IF Len(f.files) > 0 THEN Len(f.files) ELSE 1)

NoIds ==
  [compId |-> Null, patientId |-> Null, practitionerId |-> Null,
   encounterId |-> Null, custodianId |-> Null, immIds |-> <<>>,
   immRecId |-> Null, docBinaryIds |-> <<>>, docRefIds |-> <<>>]

\* ------------------------------------------------------ resource builders
buildNarrative(t, innerHtml) ==
  [status |-> "generated",
   div |-> [xmlns |-> "http://www.w3.org/1999/xhtml", lang |-> "en-IN",
            h3 |-> t, inner |-> innerHtml]]

Ref(id) == [reference |-> Urn(id)]

\* String.prototype.toLowerCase on the letters the roster uses
LowerChar(ch) ==
  CASE ch = "F" -> "f" [] ch = "M" -> "m" [] ch = "O" -> "o" [] OTHER -> ch

toLowerCase(s) == [i \in 1..Len(s) |-> LowerChar(s[i])]

buildPatientResource(f, ids) ==
  LET p == Get(f.selectedPatient)
  IN [resourceType |-> "Patient",
      id |-> ids.patientId,
      text |-> Some(buildNarrative("Patient", <<p.name, p.gender, p.dob>>)),
      name |-> IF TruthyStr(p.name) THEN Some(p.name) ELSE None,
      identifier |->
        IF TruthyStr(p.mrn)
        THEN Some(<<[system |-> "https://healthid.ndhm.gov.in", value |-> p.mrn]>>)
        ELSE None,
      gender |-> IF Truthy(p.gender) THEN Some(toLowerCase(p.gender)) ELSE None,
      \* the roster has neither mobile nor email
      telecom |->
        IF Truthy(f.selectedAbha)
        THEN Some(<<[system |-> "url",
                     value |-> <<"a", "b", "h", "a", ":", "/", "/">> \o f.selectedAbha]>>)
        ELSE None]

buildPractitionerResource(f, ids) ==
  LET p == PRACTITIONERS[1]
  IN [resourceType |-> "Practitioner",
      id |-> ids.practitionerId,
      text |-> Some(buildNarrative("Practitioner", <<p.name, p.qualification>>)),
      name |-> p.name]

\* null when no encounter id was allocated
buildEncounterResource(f, ids) ==
  IF ids.encounterId = Null THEN None
  ELSE Some([resourceType |-> "Encounter",
             id |-> ids.encounterId,
             text |-> Some(buildNarrative("Encounter", f.encounterText)),
             status |-> "finished",
             subject |-> Ref(ids.patientId)])

\* variant: the custodian organization is never built
buildCustodianOrgSkipped(f, ids) == None

buildCustodianOrg(f, ids) ==
  IF ids.custodianId = Null THEN None
  ELSE Some([resourceType |-> "Organization",
             id |-> ids.custodianId,
             text |-> Some(buildNarrative("Organization", f.custodianName)),
             name |-> f.custodianName])

buildImmunizationResources(f, ids) ==
  [idx \in 1..Len(f.immunizations) |->
     LET m == f.immunizations[idx]
     IN [resourceType |-> "Immunization",
         id |-> ids.immIds[idx],
         text |-> Some(buildNarrative("Immunization",
                    IF Truthy(m.vaccineText) THEN m.vaccineText
                    ELSE <<"U","n","k","n","o","w","n">>)),
         status |-> IF TruthyStr(m.status) THEN m.status ELSE "completed",
         vaccineCode |-> [text |-> IF Truthy(m.vaccineText) THEN m.vaccineText
                                   ELSE <<"U","n","k","n","o","w","n"," ",
                                          "v","a","c","c","i","n","e">>],
         patient |-> Ref(ids.patientId),
         lotNumber |-> IF Truthy(m.lotNumber) THEN Some(m.lotNumber) ELSE None]]

\* variant: the recommendation is skipped when its text is blank
buildImmRecResourceTrimmed(f, ids) ==
  IF ids.immRecId = Null \/ ~Truthy(Trim(f.immRecText)) THEN None
  ELSE Some([resourceType |-> "ImmunizationRecommendation",
             id |-> ids.immRecId,
             text |-> None,
             patient |-> Ref(ids.patientId),
             recommendation |-> [vaccineCode |-> Some(f.immRecText)]])

buildImmRecResource(f, ids) ==
  IF ids.immRecId = Null THEN None
  ELSE Some([resourceType |-> "ImmunizationRecommendation",
             id |-> ids.immRecId,
             text |-> None,
             patient |-> Ref(ids.patientId),
             recommendation |->
               [vaccineCode |-> IF Truthy(f.immRecText) THEN Some(f.immRecText)
                                ELSE None]])

\* FileReader.readAsDataURL: the data URL "data:<type>;base64,<payload>"
readAsDataURL(file) == <<"data:", file.type, ";", "base64,", file.bytes>>

\* reader.onload of fileToBase64NoPrefix: what follows "base64," in the result
fileToBase64NoPrefix(res) ==
  IF \E i \in 1..Len(res) : res[i] = "base64,"
  THEN LET idx == CHOOSE i \in 1..Len(res) :
                    /\ res[i] = "base64,"
                    /\ \A j \in 1..(i - 1) : res[j] # "base64,"
       IN SubSeq(res, idx + 1, Len(res))
  ELSE res

\* variant: no placeholder element when no file was uploaded
toProcessNoPlaceholder(f) == [i \in 1..Len(f.files) |-> Some(f.files[i])]

\* toProcess of buildDocAndBinaryResources: null (None) is the placeholder
toProcess(f) ==
  IF Len(f.files) > 0 THEN [i \in 1..Len(f.files) |-> Some(f.files[i])]
  ELSE <<None>>

\* one pass of the loop body of buildDocAndBinaryResources for index i
\* (one-based), dataB64 being the awaited payload when there is a file
BinaryAt(f, ids, i, dataB64) ==
  LET fl == toProcess(f)[i]
  IN [resourceType |-> "Binary",
      id |-> ids.docBinaryIds[i],
      text |-> None,
      contentType |-> IF IsSome(fl) /\ TruthyStr(Get(fl).type)
                      THEN Get(fl).type ELSE "application/pdf",
      data |-> IF IsSome(fl) THEN dataB64 ELSE <<PLACEHOLDER_PDF_B64>>]

DocRefAt(f, ids, i) ==
  LET fl == toProcess(f)[i]
      ttl == IF IsSome(fl) /\ TruthyStr(Get(fl).name)
             THEN Get(fl).name ELSE "placeholder.pdf"
      contentType == IF IsSome(fl) /\ TruthyStr(Get(fl).type)
                     THEN Get(fl).type ELSE "application/pdf"
  IN [resourceType |-> "DocumentReference",
      id |-> ids.docRefIds[i],
      text |-> Some(buildNarrative("DocumentReference", ttl)),
      status |-> "current",
      type |-> [coding |-> <<SNOMED_IMM_RECORD>>, text |-> "Immunization document"],
      subject |-> Ref(ids.patientId),
      content |-> <<[attachment |->
                       [contentType |-> contentType, title |-> ttl,
                        url |-> Urn(ids.docBinaryIds[i])]]>>]

\* variant: the section lists the documents first and omits the recommendation
buildCompositionDocsFirst(f, ids, docRefsArr) ==
  LET entries ==
        [j \in 1..Len(docRefsArr) |->
           [reference |-> Urn(docRefsArr[j].id), type |-> "DocumentReference"]]
        \o [j \in 1..Len(ids.immIds) |->
              [reference |-> Urn(ids.immIds[j]), type |-> "Immunization"]]
  IN [resourceType |-> "Composition",
      id |-> ids.compId,
      text |-> Some(buildNarrative("Composition", <<f.title, PRACTITIONERS[1].name>>)),
      status |-> f.status,
      type |-> [coding |-> <<SNOMED_IMM_RECORD>>, text |-> "Immunization record"],
      subject |-> Ref(ids.patientId),
      encounter |-> IF ids.encounterId # Null THEN Some(Ref(ids.encounterId)) ELSE None,
      author |-> <<Ref(ids.practitionerId)>>,
      title |-> f.title,
      custodian |-> IF ids.custodianId # Null THEN Some(Ref(ids.custodianId)) ELSE None,
      section |-> <<[title |-> "Immunization section",
                     entry |-> Some(entries),
                     text |-> None]>>]

buildComposition(f, ids, docRefsArr) ==
  LET entries ==
        [j \in 1..Len(ids.immIds) |->
           [reference |-> Urn(ids.immIds[j]), type |-> "Immunization"]]
        \o (IF ids.immRecId # Null
            THEN <<[reference |-> Urn(ids.immRecId),
                    type |-> "ImmunizationRecommendation"]>>
            ELSE <<>>)
        \o [j \in 1..Len(docRefsArr) |->
              [reference |-> Urn(docRefsArr[j].id), type |-> "DocumentReference"]]
  IN [resourceType |-> "Composition",
      id |-> ids.compId,
      text |-> Some(buildNarrative("Composition", <<f.title, PRACTITIONERS[1].name>>)),
      status |-> f.status,
      type |-> [coding |-> <<SNOMED_IMM_RECORD>>, text |-> "Immunization record"],
      subject |-> Ref(ids.patientId),
      encounter |-> IF ids.encounterId # Null THEN Some(Ref(ids.encounterId)) ELSE None,
      author |-> <<Ref(ids.practitionerId)>>,
      title |-> f.title,
      custodian |-> IF ids.custodianId # Null THEN Some(Ref(ids.custodianId)) ELSE None,
      section |-> <<[title |-> "Immunization section",
                     entry |-> IF Len(entries) > 0 THEN Some(entries) ELSE None,
                     text |-> IF Len(entries) > 0 THEN None
                              ELSE Some([status |-> "generated",
                                         div |-> "No immunization entries"])]>>]

\* variant: the practitioner entry's fullUrl is built from the patient's id
EntryCopyPasted(r) ==
  [fullUrl |-> Urn(IF r.resourceType = "Practitioner" THEN r.id - 1 ELSE r.id),
   resource |-> r]

Entry(r) == [fullUrl |-> Urn(r.id), resource |-> r]

\* variant: unshift instead of push
EntriesOfUnshifted(rs) == [j \in 1..Len(rs) |-> Entry(rs[Len(rs) + 1 - j])]

\* variant: the order of the entries depends on how many reads the session
\* has started
EntriesOfByReads(rs) ==
  [j \in 1..Len(rs) |->
     Entry(rs[IF readsStarted % 4 = 0 THEN Len(rs) + 1 - j ELSE j])]

EntriesOf(rs) == [j \in 1..Len(rs) |-> Entry(rs[j])]

\* the bundle composed once buildDocAndBinaryResources has returned; u uuidv4
\* calls were made before its two own
ComposeBundle(f, ids, binaries, docRefs, u) ==
  [resourceType |-> "Bundle",
   id |-> <<"ImmunizationBundle-", uuidv4(u + 1)>>,
   identifier |-> [system |-> "urn:ietf:rfc:3986", value |-> Urn(uuidv4(u + 2))],
   type |-> "document",
   entry |->
     <<Entry(buildComposition(f, ids, docRefs)),
       Entry(buildPatientResource(f, ids)),
       Entry(buildPractitionerResource(f, ids))>>
     \o EntriesOf(buildEncounterResource(f, ids))
     \o EntriesOf(buildCustodianOrg(f, ids))
     \o EntriesOf(buildImmunizationResources(f, ids))
     \o EntriesOf(buildImmRecResource(f, ids))
     \o EntriesOf(docRefs)
     \o EntriesOf(binaries)]

\* ------------------------------------------------ onBuildBundle invocations
(***************************************************************************)
(* One invocation of the async function onBuildBundle is a record:         *)
(*   pc        "invalid"   returned after the alert of validation errors   *)
(*             "reading"   suspended in await fileToBase64NoPrefix(f)      *)
(*             "composing" buildDocAndBinaryResources has returned         *)
(*             "done"      setJsonOut and the final alert were executed    *)
(*             "rejected"  the awaited promise rejected: the invocation    *)
(*                         ended with an unhandled "File read error"       *)
(*   form      the render's state captured by the closure                  *)
(*   errors    what validateBeforeBuild returned                           *)
(*   ids       the identifiers of the "// ids" block                       *)
(*   uuids     the number of uuidv4 calls the invocation has made          *)
(*   i         one-based index of the loop of buildDocAndBinaryResources   *)
(*   binaries, docRefs   the two arrays of that loop                       *)
(*   readError whether a FileReader of the invocation fired onerror        *)
(***************************************************************************)

\* the loop of buildDocAndBinaryResources from the top of iteration c.i up to
\* its next await or its end; the placeholder iteration awaits nothing
RECURSIVE RunLoop(_)
RunLoop(c) ==
  IF c.i > Len(toProcess(c.form)) THEN [c EXCEPT !.pc = "composing"]
  ELSE IF IsSome(toProcess(c.form)[c.i]) THEN [c EXCEPT !.pc = "reading"]
  ELSE RunLoop([c EXCEPT
                  !.binaries = Append(@, BinaryAt(c.form, c.ids, c.i, <<>>)),
                  !.docRefs = Append(@, DocRefAt(c.form, c.ids, c.i)),
                  !.i = @ + 1])

\* variant: the identifiers are allocated before the form is validated
StartCallIdsFirst(f, u) ==
  LET errors == validateBeforeBuild(f)
      begun == [pc |-> "invalid", form |-> f, errors |-> errors,
                ids |-> AllocateIds(f, u), uuids |-> IdsAllocated(f), i |-> 1,
                binaries |-> <<>>, docRefs |-> <<>>, readError |-> FALSE]
  IN IF Len(errors) > 0 THEN begun ELSE RunLoop(begun)

\* onBuildBundle from the click to its first await (or its return), for the
\* render state f, u uuidv4 calls having been made before
StartCall(f, u) ==
  LET errors == validateBeforeBuild(f)
      blank == [pc |-> "invalid", form |-> f, errors |-> errors, ids |-> NoIds,
                uuids |-> 0, i |-> 1, binaries |-> <<>>, docRefs |-> <<>>,
                readError |-> FALSE]
  IN IF Len(errors) > 0 THEN blank
     ELSE RunLoop([blank EXCEPT !.ids = AllocateIds(f, u),
                                !.uuids = IdsAllocated(f)])

\* variant: the code after the await reads the title of the current render
\* instead of the one its closure captured
onloadLiveTitle(c, res) ==
  RunLoop([c EXCEPT
             !.form = [@ EXCEPT !.title = title],
             !.binaries = Append(@, BinaryAt(c.form, c.ids, c.i,
                                             fileToBase64NoPrefix(res))),
             !.docRefs = Append(@, DocRefAt(c.form, c.ids, c.i)),
             !.i = @ + 1])

\* reader.onload: the promise resolves with res stripped of its prefix and the
\* loop goes on
onload(c, res) ==
  RunLoop([c EXCEPT
             !.binaries = Append(@, BinaryAt(c.form, c.ids, c.i,
                                             fileToBase64NoPrefix(res))),
             !.docRefs = Append(@, DocRefAt(c.form, c.ids, c.i)),
             !.i = @ + 1])

\* variant: onerror resolves with an empty payload instead of rejecting
onerrorResolved(c) ==
  RunLoop([c EXCEPT
             !.readError = TRUE,
             !.binaries = Append(@, BinaryAt(c.form, c.ids, c.i, <<>>)),
             !.docRefs = Append(@, DocRefAt(c.form, c.ids, c.i)),
             !.i = @ + 1])

\* reader.onerror: the promise rejects, the await throws, nothing catches it
onerror(c) == [c EXCEPT !.pc = "rejected", !.readError = TRUE]

Put(k, c) ==
  IF k = Len(calls) + 1 THEN Append(calls, c) ELSE [calls EXCEPT ![k] = c]

\* what invocation k does next once it is at nc, having made `made` more
\* uuidv4 calls: the tail of onBuildBundle after the await when the loop has
\* ended, otherwise the next readAsDataURL or nothing
Settle(k, nc, made) ==
  IF nc.pc = "composing"
  THEN /\ calls' = Put(k, [nc EXCEPT !.pc = "done", !.uuids = @ + 2])
       /\ jsonOut' = Some(ComposeBundle(nc.form, nc.ids, nc.binaries,
                                        nc.docRefs, uuidCalls + made))
       /\ uuidCalls' = uuidCalls + made + 2
       /\ alerts' = Append(alerts, [by |-> k, kind |-> "generated",
                                    lines |-> <<>>])
       /\ readsStarted' = readsStarted
       /\ jsonOutSetBy' = Append(jsonOutSetBy, k)
  ELSE /\ calls' = Put(k, nc)
       /\ jsonOut' = jsonOut
       /\ jsonOutSetBy' = jsonOutSetBy
       /\ uuidCalls' = uuidCalls + made
       /\ alerts' = IF nc.pc = "invalid"
                    THEN Append(alerts, [by |-> k, kind |-> "Please fix:",
                                         lines |-> nc.errors])
                    ELSE alerts
       /\ readsStarted' = IF nc.pc = "reading" THEN readsStarted + 1
                          ELSE readsStarted

\* click on "Generate Immunization Bundle"
onBuildBundle ==
  /\ mounted = "App"
  /\ Len(calls) < MaxBuilds
  /\ LET nc == StartCall(Form, uuidCalls)
     IN Settle(Len(calls) + 1, nc, nc.uuids)
  /\ UNCHANGED <<mounted, callVars, formVars, diagVars>>

\* the FileReader of a suspended invocation fires load
readerOnload ==
  /\ mounted = "App"
  /\ \E k \in 1..Len(calls) :
       /\ calls[k].pc = "reading"
       /\ Settle(k, onload(calls[k],
                           readAsDataURL(Get(toProcess(calls[k].form)[calls[k].i]))),
                 0)
  /\ UNCHANGED <<mounted, callVars, formVars, diagVars>>

\* the FileReader of a suspended invocation fires error
readerOnerror ==
  /\ mounted = "App"
  /\ \E k \in 1..Len(calls) :
       /\ calls[k].pc = "reading"
       /\ Settle(k, onerror(calls[k]), 0)
  /\ UNCHANGED <<mounted, callVars, formVars, diagVars>>

\* what the file input shows for a pick: the name of its first file (the
\* browser prefixes it with C:\fakepath\), "" for an empty pick
InputValueOf(fs) == IF Len(fs) > 0 THEN fs[1].name ELSE ""

NamesOf(fs) == [i \in 1..Len(fs) |-> fs[i].name]

\* the output and the bookkeeping of a session that has built nothing yet
InitOutput ==
  /\ jsonOut = None
  /\ alerts = <<>>
  /\ uuidCalls = 0
  /\ readsStarted = 0
  /\ calls = <<>>
  /\ jsonOutSetBy = <<>>


\* ------------------------------------------------- DiagnosticReportForm
FileT == [name |-> "n.txt", type |-> "text/plain", bytes |-> "VA=="]
\* e.target.files of one change event of the attachments input
DiagFileLists ==
  {<<>>, <<FileA>>, <<FileT>>, <<FileA, FileB>>, <<FileB, FileA>>,
   <<FileT, FileA>>}

SupportedTypes == {"application/pdf", "image/jpeg", "image/png"}

EmptyPatient == [name |-> "", mrn |-> "", gender |-> ""]
AshaPatient == [name |-> "Asha Singh", mrn |-> "MRN-1", gender |-> "female"]

practitioner == [id |-> "TEMP", name |-> "Dr. ABC", license |-> "LIC-TEMP-0001"]

ResultRow(n) == [codeText |-> <<"Hb", n>>, codeSnomed |-> "", value |-> "13.5 g/dL"]
SpecimenRow(n) == [typeText |-> <<"Blood sample", n>>]

\* e.target.result.split(",")[1] of a data URL
splitComma1(res) ==
  LET idx == CHOOSE i \in 1..Len(res) :
               /\ res[i] = "base64,"
               /\ \A j \in 1..(i - 1) : res[j] # "base64,"
  IN res[idx + 1]

(***************************************************************************)
(* One invocation of handleAttachmentsChange with a non-empty list:        *)
(*   files   Array.from(filesList)                                         *)
(*   slots   one promise of readFile per file, in the order of files:      *)
(*           outcome "pending" | "load" | "error" | "unsupported", and the *)
(*           value it resolved with (None for null)                        *)
(*   order   the indexes of the settled promises, in the order they        *)
(*           settled                                                       *)
(*   pc      "reading" (suspended in await Promise.all) | "done"           *)
(*   stored  the array passed to setAttachments                            *)
(***************************************************************************)
readFile(file) ==
  IF file.type \notin SupportedTypes
  THEN [outcome |-> "unsupported", value |-> None]
  ELSE [outcome |-> "pending", value |-> None]

SettledAtStart(fs) ==
  SelectSeq([j \in 1..Len(fs) |-> j], LAMBDA j : fs[j].type \notin SupportedTypes)

startPick(filesList) ==
  [files |-> filesList,
   slots |-> [j \in 1..Len(filesList) |-> readFile(filesList[j])],
   order |-> SettledAtStart(filesList),
   pc |-> "reading",
   stored |-> None]

\* variant: the values in the order the promises settled
promiseAllAsSettled(p) == [n \in 1..Len(p.order) |-> p.slots[p.order[n]].value]

\* Promise.all: the values in the order of the promises
promiseAll(p) == [j \in 1..Len(p.slots) |-> p.slots[j].value]

AllSettled(p) == \A j \in 1..Len(p.slots) : p.slots[j].outcome # "pending"

PutPick(k, p) ==
  IF k = Len(picks) + 1 THEN Append(picks, p) ELSE [picks EXCEPT ![k] = p]

\* the continuation of await Promise.all once every promise has settled
SettlePick(k, np) ==
  IF AllSettled(np)
  THEN /\ picks' = PutPick(k, [np EXCEPT !.pc = "done",
                                 !.stored = Some(filterBoolean(promiseAll(np)))])
       /\ attachments' = filterBoolean(promiseAll(np))
  ELSE /\ picks' = PutPick(k, np)
       /\ attachments' = attachments

diagFormVars ==
  <<selectionVars, patient, diagCodeText, issuedDate, results, specimens>>

\* handleAttachmentsChange(filesList) for a list of lists, while fewer than
\* limit change events were handled
changeAttachments(limit, lists) ==
  /\ mounted = "DiagnosticReportForm"
  /\ Len(picks) < limit
  /\ \E filesList \in lists :
       IF Len(filesList) = 0
       THEN /\ attachments' = <<>>
            /\ picks' = Append(picks, [startPick(filesList) EXCEPT
                                         !.pc = "done", !.stored = Some(<<>>)])
       ELSE SettlePick(Len(picks) + 1, startPick(filesList))
  /\ UNCHANGED <<mounted, callVars, appVars, diagFormVars, errorMsg, consoleLog, submits>>

handleAttachmentsChange == changeAttachments(MaxPicks, DiagFileLists)

\* reader.onload of readFile for file j of pick k
attachmentOnload ==
  /\ mounted = "DiagnosticReportForm"
  /\ \E k \in 1..Len(picks) : \E j \in 1..Len(picks[k].slots) :
       /\ picks[k].slots[j].outcome = "pending"
       /\ LET file == picks[k].files[j]
              att == [id |-> uuidv4(uuidCalls + 1), name |-> file.name,
                      mime |-> file.type,
                      base64 |-> splitComma1(readAsDataURL(file))]
          IN SettlePick(k, [picks[k] EXCEPT
                              !.slots[j] = [outcome |-> "load", value |-> Some(att)],
                              !.order = Append(@, j)])
  /\ uuidCalls' = uuidCalls + 1
  /\ UNCHANGED <<mounted, callVars, formVars, jsonOut, alerts, readsStarted, calls,
                 jsonOutSetBy, diagFormVars, errorMsg, consoleLog, submits>>

\* reader.onerror of readFile for file j of pick k: resolve(null)
attachmentOnerror ==
  /\ mounted = "DiagnosticReportForm"
  /\ \E k \in 1..Len(picks) : \E j \in 1..Len(picks[k].slots) :
       /\ picks[k].slots[j].outcome = "pending"
       /\ SettlePick(k, [picks[k] EXCEPT
                           !.slots[j] = [outcome |-> "error", value |-> None],
                           !.order = Append(@, j)])
  /\ UNCHANGED <<mounted, callVars, appVars, diagFormVars, errorMsg, consoleLog, submits>>

\* the message of the Error buildBundle throws, "" when it throws none
buildBundleError ==
  IF ~TruthyStr(practitioner.name) \/ ~TruthyStr(practitioner.license)
  THEN "Practitioner name and license required."
  ELSE IF ~TruthyStr(patient.name) \/ ~TruthyStr(patient.mrn)
          \/ ~TruthyStr(patient.gender)
  THEN "Patient name, MRN and gender required."
  ELSE IF ~TruthyStr(diagCodeText) THEN "Diagnostic test code/name is required."
  ELSE IF ~TruthyStr(issuedDate) THEN "Issued date is required."
  ELSE ""

\* variant: the document ids are numbered like the specimen ids
DiagIdsShared(u) ==
  LET n == Len(results)
      m == Len(specimens)
      d == Len(attachments)
  IN [compId |-> uuidv4(u + 1),
      patientId |-> uuidv4(u + 2),
      practitionerId |-> uuidv4(u + 3),
      diagId |-> uuidv4(u + 4),
      obsIds |-> [j \in 1..n |-> uuidv4(u + 4 + j)],
      specimenIds |-> [j \in 1..m |-> uuidv4(u + 4 + n + j)],
      docIds |-> [j \in 1..d |-> uuidv4(u + 4 + n + j)]]

\* the "// generate ids" block of buildBundle after u earlier uuidv4 calls
DiagIds(u) ==
  LET n == Len(results)
      m == Len(specimens)
      d == Len(attachments)
  IN [compId |-> uuidv4(u + 1),
      patientId |-> uuidv4(u + 2),
      practitionerId |-> uuidv4(u + 3),
      diagId |-> uuidv4(u + 4),
      obsIds |-> [j \in 1..n |-> uuidv4(u + 4 + j)],
      specimenIds |-> [j \in 1..m |-> uuidv4(u + 4 + n + j)],
      docIds |-> [j \in 1..d |-> uuidv4(u + 4 + n + m + j)]]

DiagIdsAllocated == 4 + Len(results) + Len(specimens) + Len(attachments)

diagNarrative(t, html) ==
  [status |-> "generated",
   div |-> [xmlns |-> "http://www.w3.org/1999/xhtml", lang |-> "en-IN",
            h3 |-> t, inner |-> html]]

DisplayRef(id, display) == [reference |-> Urn(id), display |-> display]

observationResources(ids) ==
  [idx \in 1..Len(results) |->
     [resourceType |-> "Observation",
      id |-> ids.obsIds[idx],
      text |-> Some(diagNarrative("Result", results[idx].codeText)),
      status |-> "final",
      code |-> [text |-> results[idx].codeText],
      subject |-> DisplayRef(ids.patientId, patient.name),
      performer |-> <<DisplayRef(ids.practitionerId, practitioner.name)>>]]

specimenResources(ids) ==
  [idx \in 1..Len(specimens) |->
     [resourceType |-> "Specimen",
      id |-> ids.specimenIds[idx],
      text |-> Some(diagNarrative("Specimen", specimens[idx].typeText)),
      subject |-> DisplayRef(ids.patientId, patient.name)]]

documentResources(ids) ==
  [idx \in 1..Len(attachments) |->
     [resourceType |-> "DocumentReference",
      id |-> ids.docIds[idx],
      text |-> Some(diagNarrative("Document", attachments[idx].name)),
      status |-> "current",
      subject |-> DisplayRef(ids.patientId, patient.name),
      content |-> <<[attachment |->
                       [contentType |-> attachments[idx].mime,
                        data |-> attachments[idx].base64,
                        title |-> attachments[idx].name]]>>]]

compositionResource(ids) ==
  [resourceType |-> "Composition",
   id |-> ids.compId,
   text |-> Some(diagNarrative("Laboratory report", issuedDate)),
   status |-> "final",
   subject |-> DisplayRef(ids.patientId, patient.name),
   encounter |-> None,
   author |-> <<DisplayRef(ids.practitionerId, practitioner.name)>>,
   custodian |-> None,
   section |->
     <<[title |-> "Laboratory report",
        entry |-> Some(<<[reference |-> Urn(ids.diagId), type |-> "DiagnosticReport"]>>
                       \o [j \in 1..Len(attachments) |->
                             [reference |-> Urn(documentResources(ids)[j].id),
                              type |-> "DocumentReference"]]),
        text |-> None]>>]

patientResource(ids) ==
  [resourceType |-> "Patient",
   id |-> ids.patientId,
   text |-> Some(diagNarrative("Patient", <<patient.name, patient.mrn>>)),
   name |-> patient.name,
   gender |-> patient.gender]

practitionerResource(ids) ==
  [resourceType |-> "Practitioner",
   id |-> ids.practitionerId,
   text |-> Some(diagNarrative("Practitioner", practitioner.name)),
   name |-> practitioner.name]

diagnosticReportResource(ids) ==
  [resourceType |-> "DiagnosticReport",
   id |-> ids.diagId,
   text |-> Some(diagNarrative("DiagnosticReport", diagCodeText)),
   code |-> [text |-> diagCodeText],
   subject |-> DisplayRef(ids.patientId, patient.name),
   performer |-> <<DisplayRef(ids.practitionerId, practitioner.name)>>,
   result |-> [j \in 1..Len(results) |-> Ref(observationResources(ids)[j].id)],
   specimen |-> [j \in 1..Len(specimens) |-> Ref(specimenResources(ids)[j].id)]]

PushAll(ids, rs) == [j \in 1..Len(rs) |-> [fullUrl |-> Urn(rs[j].id), resource |-> rs[j]]]

\* the bundle buildBundle returns when it throws nothing, after u earlier
\* uuidv4 calls
buildBundle(u) ==
  LET ids == DiagIds(u)
  IN [resourceType |-> "Bundle",
      id |-> <<"DiagnosticReportBundle-", uuidv4(u + DiagIdsAllocated + 1)>>,
      identifier |-> [system |-> "https://ndhm.gov.in/fhir/bundles",
                      value |-> <<"diagnostic-report-",
                                  uuidv4(u + DiagIdsAllocated + 2)>>],
      type |-> "document",
      entry |->
        <<[fullUrl |-> Urn(ids.compId), resource |-> compositionResource(ids)],
          [fullUrl |-> Urn(ids.patientId), resource |-> patientResource(ids)],
          [fullUrl |-> Urn(ids.practitionerId), resource |-> practitionerResource(ids)],
          [fullUrl |-> Urn(ids.diagId), resource |-> diagnosticReportResource(ids)]>>
        \o PushAll(ids, observationResources(ids))
        \o PushAll(ids, specimenResources(ids))
        \o PushAll(ids, documentResources(ids))]

\* submit of the form: buildBundle inside try / catch
handleSubmit ==
  /\ mounted = "DiagnosticReportForm"
  /\ submits < MaxSubmits
  /\ submits' = submits + 1
  /\ IF buildBundleError # ""
     THEN /\ errorMsg' = buildBundleError
          /\ UNCHANGED <<consoleLog, uuidCalls>>
     ELSE /\ consoleLog' = Some(buildBundle(uuidCalls))
          /\ uuidCalls' = uuidCalls + DiagIdsAllocated + 2
          /\ errorMsg' = ""
  /\ UNCHANGED <<mounted, callVars, formVars, jsonOut, alerts, readsStarted, calls,
                 jsonOutSetBy, diagFormVars, attachments, picks>>

\* ------------------------------------------------------ initial conditions
\* App as constructed by its useState initialisers
InitAppForm ==
  /\ patients = <<>>
  /\ selectedPatientIdx = -1
  /\ status = "final"
  /\ title = TitleDefault
  /\ encounterText = EmptyText
  /\ custodianName = EmptyText
  /\ immunizations = <<NewImmunization(BCG)>>
  /\ immRecText = EmptyText
  /\ files = <<>>
  /\ filePreviewNames = <<>>
  /\ fileInputValue = ""
  /\ abhaOptions = <<>>
  /\ selectedAbha = <<>>
  /\ edits = 0

\* no helper function is being called on its own
InitNoCall ==
  /\ arg = None
  /\ result = <<>>

\* DiagnosticReportForm as constructed by its useState initialisers
InitDiagForm ==
  /\ patientsList = <<>>
  /\ diagSelectedPatientIdx = -1
  /\ abhaList = <<>>
  /\ diagSelectedAbha = <<>>
  /\ patient = EmptyPatient
  /\ diagCodeText = ""
  /\ issuedDate = "2026-01-05"
  /\ results = <<ResultRow(1)>>
  /\ specimens = <<SpecimenRow(1)>>

InitDiagOutput ==
  /\ attachments = <<>>
  /\ errorMsg = ""
  /\ consoleLog = None
  /\ picks = <<>>
  /\ submits = 0

\* App with the form filled in by the user: each such state is reached from
\* the constructed form through the setters of the inputs
InitFilled ==
  /\ mounted = "App"
  /\ patients \in {<<>>, Roster}
  /\ selectedPatientIdx = IF Len(patients) > 0 THEN 0 ELSE -1
  /\ status = "final"
  /\ title = TitleDefault
  /\ encounterText \in {EmptyText, EncText}
  /\ custodianName \in {EmptyText, CustText}
  /\ immunizations \in ImmunizationLists
  /\ immRecText \in {EmptyText, BlankText, RecText}
  /\ files \in FileLists
  /\ filePreviewNames = NamesOf(files)
  /\ fileInputValue = InputValueOf(files)
  /\ abhaOptions = abhasOf(selectedPatient)
  /\ selectedAbha = firstValue(abhaOptions)
  /\ edits = 0
  /\ InitOutput
  /\ InitDiagForm
  /\ InitDiagOutput
  /\ InitNoCall

\* DiagnosticReportForm with the form filled in by the user
InitDiagFilled ==
  /\ mounted = "DiagnosticReportForm"
  /\ patientsList = <<>>
  /\ diagSelectedPatientIdx = -1
  /\ abhaList = <<>>
  /\ diagSelectedAbha = <<>>
  /\ patient \in {EmptyPatient, AshaPatient}
  /\ diagCodeText = "CBC"
  /\ issuedDate = "2026-01-05"
  /\ results \in {[j \in 1..n |-> ResultRow(j)] : n \in 1..MaxRows}
  /\ specimens \in {[j \in 1..n |-> SpecimenRow(j)] : n \in 1..MaxRows}
  /\ InitDiagOutput
  /\ InitAppForm
  /\ InitOutput
  /\ InitNoCall

NextBuild == onBuildBundle \/ readerOnload \/ readerOnerror

NextDiag ==
  \/ handleAttachmentsChange
  \/ attachmentOnload
  \/ attachmentOnerror
  \/ handleSubmit

Init == InitFilled \/ InitDiagFilled

Next == NextBuild \/ NextDiag

Spec == Init /\ [][Next]_vars

\* ------------------------------------------------- validateBeforeBuild
\* The inputs of validateBeforeBuild drawn over every combination of its four
\* conditions. status = "" is a value the function tests for and the status
\* select does not offer: it is drawn here as an input of the function.
InitValidate ==
  /\ mounted = "App"
  /\ patients \in {<<>>, Roster}
  /\ selectedPatientIdx = IF Len(patients) > 0 THEN 0 ELSE -1
  /\ status \in {"", "final"}
  /\ title \in {EmptyText, BlankText, TitleDefault}
  /\ encounterText = EmptyText
  /\ custodianName = EmptyText
  /\ immunizations \in ImmunizationLists
  /\ immRecText \in {EmptyText, BlankText, RecText}
  /\ files \in {<<>>, <<FileA>>}
  /\ filePreviewNames = NamesOf(files)
  /\ fileInputValue = InputValueOf(files)
  /\ abhaOptions = abhasOf(selectedPatient)
  /\ selectedAbha = firstValue(abhaOptions)
  /\ edits = 0
  /\ InitOutput
  /\ InitDiagForm
  /\ InitDiagOutput
  /\ InitNoCall

SpecValidate == InitValidate /\ [][NextBuild]_vars

\* ------------------------------------------------------- an App session
outputVars == <<jsonOut, alerts, uuidCalls, readsStarted, calls, jsonOutSetBy>>

\* one change event of the form; a change event carries a new value
Edit ==
  /\ mounted = "App"
  /\ edits < MaxEdits
  /\ edits' = edits + 1
  /\ UNCHANGED <<mounted, callVars, outputVars, diagVars>>

\* the mount effect: patients.json has been fetched
loadPatients ==
  /\ mounted = "App"
  /\ patients = <<>>
  /\ patients' = Roster
  /\ selectedPatientIdx' = 0
  /\ abhaOptions' = abhasOf(Some(Roster[1]))
  /\ selectedAbha' = firstValue(abhaOptions')
  /\ UNCHANGED <<status, title, encounterText, custodianName, immunizations,
                 immRecText, files, filePreviewNames, fileInputValue, edits>>
  /\ UNCHANGED <<mounted, callVars, outputVars, diagVars>>

setSelectedPatientIdx ==
  /\ Edit
  /\ \E i \in 0..(Len(patients) - 1) :
       /\ i # selectedPatientIdx
       /\ selectedPatientIdx' = i
       /\ abhaOptions' = abhasOf(Some(patients[i + 1]))
       /\ selectedAbha' = firstValue(abhaOptions')
  /\ UNCHANGED <<patients, status, title, encounterText, custodianName,
                 immunizations, immRecText, files, filePreviewNames, fileInputValue>>

setStatus ==
  /\ Edit
  /\ UNCHANGED <<abhaOptions, selectedAbha>>
  /\ \E v \in StatusOptions : v # status /\ status' = v
  /\ UNCHANGED <<patients, selectedPatientIdx, title, encounterText,
                 custodianName, immunizations, immRecText, files,
                 filePreviewNames, fileInputValue>>

setTitle ==
  /\ Edit
  /\ UNCHANGED <<abhaOptions, selectedAbha>>
  /\ \E v \in {EmptyText, BlankText, TitleDefault} : v # title /\ title' = v
  /\ UNCHANGED <<patients, selectedPatientIdx, status, encounterText,
                 custodianName, immunizations, immRecText, files,
                 filePreviewNames, fileInputValue>>

setEncounterText ==
  /\ Edit
  /\ UNCHANGED <<abhaOptions, selectedAbha>>
  /\ \E v \in {EmptyText, EncText} : v # encounterText /\ encounterText' = v
  /\ UNCHANGED <<patients, selectedPatientIdx, status, title, custodianName,
                 immunizations, immRecText, files, filePreviewNames, fileInputValue>>

setCustodianName ==
  /\ Edit
  /\ UNCHANGED <<abhaOptions, selectedAbha>>
  /\ \E v \in {EmptyText, CustText} : v # custodianName /\ custodianName' = v
  /\ UNCHANGED <<patients, selectedPatientIdx, status, title, encounterText,
                 immunizations, immRecText, files, filePreviewNames, fileInputValue>>

addImmunization ==
  /\ Edit
  /\ UNCHANGED <<abhaOptions, selectedAbha>>
  /\ Len(immunizations) < MaxImms
  /\ immunizations' = Append(immunizations, NewImmunization(EmptyText))
  /\ UNCHANGED <<patients, selectedPatientIdx, status, title, encounterText,
                 custodianName, immRecText, files, filePreviewNames, fileInputValue>>

\* updateImmunization(i, "vaccineText", val), i zero-based
updateImmunization ==
  /\ Edit
  /\ UNCHANGED <<abhaOptions, selectedAbha>>
  /\ \E i \in 0..(Len(immunizations) - 1) : \E val \in VaccineTexts :
       /\ val # immunizations[i + 1].vaccineText
       /\ immunizations' = [immunizations EXCEPT ![i + 1].vaccineText = val]
  /\ UNCHANGED <<patients, selectedPatientIdx, status, title, encounterText,
                 custodianName, immRecText, files, filePreviewNames, fileInputValue>>

\* variant: the remove button is never disabled
removeNeverDisabled(list) == FALSE

\* disabled={immunizations.length === 1} of the remove button of a row
removeDisabled(list) == Len(list) = 1

\* removeImmunization(i); its button is disabled while one row is left
removeImmunization ==
  /\ Edit
  /\ UNCHANGED <<abhaOptions, selectedAbha>>
  /\ ~removeDisabled(immunizations)
  /\ \E i \in 0..(Len(immunizations) - 1) :
       immunizations' = FilterOutIndex(immunizations, i)
  /\ UNCHANGED <<patients, selectedPatientIdx, status, title, encounterText,
                 custodianName, immRecText, files, filePreviewNames, fileInputValue>>

setImmRecText ==
  /\ Edit
  /\ UNCHANGED <<abhaOptions, selectedAbha>>
  /\ \E v \in {EmptyText, BlankText, RecText} : v # immRecText /\ immRecText' = v
  /\ UNCHANGED <<patients, selectedPatientIdx, status, title, encounterText,
                 custodianName, immunizations, files, filePreviewNames, fileInputValue>>

onFilesPicked ==
  /\ Edit
  /\ UNCHANGED <<abhaOptions, selectedAbha>>
  /\ \E list \in FileLists :
       /\ list # files \/ InputValueOf(list) # fileInputValue
       /\ files' = list
       /\ filePreviewNames' = NamesOf(list)
       /\ fileInputValue' = InputValueOf(list)
  /\ UNCHANGED <<patients, selectedPatientIdx, status, title, encounterText,
                 custodianName, immunizations, immRecText>>

removeFileAtIndex ==
  /\ Edit
  /\ UNCHANGED <<abhaOptions, selectedAbha>>
  /\ \E i \in 0..(Len(files) - 1) :
       /\ files' = FilterOutIndex(files, i)
       /\ filePreviewNames' = FilterOutIndex(filePreviewNames, i)
       /\ fileInputValue' = ""
  /\ UNCHANGED <<patients, selectedPatientIdx, status, title, encounterText,
                 custodianName, immunizations, immRecText>>

NextEdit ==
  \/ loadPatients
  \/ setSelectedPatientIdx
  \/ setStatus
  \/ setTitle
  \/ setEncounterText
  \/ setCustodianName
  \/ addImmunization
  \/ updateImmunization
  \/ removeImmunization
  \/ setImmRecText
  \/ onFilesPicked
  \/ removeFileAtIndex

\* App as mounted, before patients.json has arrived
InitSession ==
  /\ mounted = "App"
  /\ InitAppForm
  /\ InitOutput
  /\ InitDiagForm
  /\ InitDiagOutput
  /\ InitNoCall

NextSession == NextEdit \/ NextBuild

SpecSession == InitSession /\ [][NextSession]_vars

\* ------------------------------------------------ date-only normalization
Digits == {"0", "1", "2", "3", "4", "5", "6", "7", "8", "9"}

\* /^\d{4}-\d{2}-\d{2}$/.test(s)
IsoDatePattern(s) ==
  /\ Len(s) = 10
  /\ \A i \in 1..10 : IF i \in {5, 8} THEN s[i] = "-" ELSE s[i] \in Digits

\* s.includes(ch)
includes(s, ch) == \E i \in 1..Len(s) : s[i] = ch

\* s.split(sep)
RECURSIVE split(_, _)
split(s, sep) ==
  IF ~includes(s, sep) THEN <<s>>
  ELSE LET i == CHOOSE i \in 1..Len(s) :
                  s[i] = sep /\ \A j \in 1..(i - 1) : s[j] # sep
       IN <<SubSeq(s, 1, i - 1)>> \o split(SubSeq(s, i + 1, Len(s)), sep)

\* x.padStart(2, "0")
padStart2(x) ==
  IF Len(x) >= 2 THEN x ELSE IF Len(x) = 1 THEN <<"0">> \o x ELSE <<"0", "0">>

\* App: ddmmyyyyToISO(v); v and the value returned are optional strings,
\* None being undefined
ddmmyyyyToISO(v) ==
  IF ~IsSome(v) \/ ~Truthy(Get(v)) THEN None
  ELSE LET s == Trim(Get(v))
           sep == IF includes(s, "-") THEN Some("-")
                  ELSE IF includes(s, "/") THEN Some("/") ELSE None
       IN IF IsoDatePattern(s) THEN Some(s)
          ELSE IF ~IsSome(sep) THEN None
          ELSE LET parts == split(s, Get(sep))
               IN IF Len(parts) # 3 THEN None
                  ELSE Some(parts[3] \o <<"-">> \o padStart2(parts[2])
                              \o <<"-">> \o padStart2(parts[1]))

\* DiagnosticReportForm: ddmmyyyyToISO(value); always returns a string
diagDdmmyyyyToISO(value) ==
  IF ~IsSome(value) \/ ~Truthy(Get(value)) THEN <<>>
  ELSE LET s == Trim(Get(value))
           sep == IF includes(s, "-") THEN Some("-")
                  ELSE IF includes(s, "/") THEN Some("/") ELSE None
       IN IF IsoDatePattern(s) THEN s
          ELSE IF ~IsSome(sep) THEN s
          ELSE LET parts == split(s, Get(sep))
               IN IF Len(parts) # 3 THEN s
                  ELSE IF Len(parts[1]) = 4 THEN s
                  ELSE IF Len(parts[3]) = 4
                       THEN parts[3] \o <<"-">> \o padStart2(parts[2])
                              \o <<"-">> \o padStart2(parts[1])
                       ELSE s

\* the pieces date strings are drawn from
DateParts ==
  {<<>>, <<"5">>, <<"1", "5">>, <<"0", "6">>, <<"1", "9", "9", "0">>, <<"a", "b">>}

DateSeps == {"-", "/"}

DateStrings ==
  DateParts
  \cup {a \o <<x>> \o b : a \in DateParts, b \in DateParts, x \in DateSeps}
  \cup {a \o <<x>> \o b \o <<y>> \o c :
          a \in DateParts, b \in DateParts, c \in DateParts,
          x \in DateSeps, y \in DateSeps}
  \cup {<<" ">>,
        <<" ", "1", "5", "-", "0", "6", "-", "1", "9", "9", "0", " ">>,
        <<"1", "9", "9", "0", "-", "0", "6", "-", "1", "5", " ">>,
        <<"1", "-", "2", "-", "3", "-", "4">>}

DateInputs == {None} \cup {Some(x) : x \in DateStrings}

InitIdle ==
  /\ InitAppForm
  /\ InitOutput
  /\ InitDiagForm
  /\ InitDiagOutput

InitDateOnly ==
  /\ mounted \in {"App", "DiagnosticReportForm"}
  /\ InitIdle
  /\ arg \in DateInputs
  /\ result = <<>>

\* App calls ddmmyyyyToISO(arg)
ddmmyyyyToISOCall ==
  /\ mounted = "App"
  /\ result = <<>>
  /\ result' = <<ddmmyyyyToISO(arg)>>
  /\ UNCHANGED <<mounted, appVars, diagVars, arg>>

\* DiagnosticReportForm calls its ddmmyyyyToISO(arg)
diagDdmmyyyyToISOCall ==
  /\ mounted = "DiagnosticReportForm"
  /\ result = <<>>
  /\ result' = <<Some(diagDdmmyyyyToISO(arg))>>
  /\ UNCHANGED <<mounted, appVars, diagVars, arg>>

NextDateOnly == ddmmyyyyToISOCall \/ diagDdmmyyyyToISOCall

SpecDateOnly == InitDateOnly /\ [][NextDateOnly]_vars

\* ------------------------------------------------------------ timestamps
(***************************************************************************)
(* A Date is [t |-> seconds since the epoch, ms |-> milliseconds part].    *)
(* The environment's time zone is tz, its offset east of UTC in minutes,   *)
(* the same at every instant.                                              *)
(***************************************************************************)
DigitValue(ch) == CHOOSE d \in 0..9 : DigitChars[d + 1] = ch

abs(n) == IF n < 0 THEN -n ELSE n

\* String(n) of an integer
RECURSIVE NatToString(_)
NatToString(n) ==
  IF n < 10 THEN <<DigitChars[n + 1]>>
  ELSE NatToString(n \div 10) \o <<DigitChars[(n % 10) + 1]>>

String(n) == IF n < 0 THEN <<"-">> \o NatToString(-n) ELSE NatToString(n)

\* Number(s) of a string of digits
RECURSIVE Number(_)
Number(s) ==
  IF Len(s) = 0 THEN 0
  ELSE 10 * Number(SubSeq(s, 1, Len(s) - 1)) + DigitValue(s[Len(s)])

\* x.padStart(n, "0")
RECURSIVE padStart(_, _)
padStart(x, n) == IF Len(x) >= n THEN x ELSE padStart(<<"0">> \o x, n)

\* the civil date [y, m, d] of a day number counted from 1970-01-01
CivilFromDays(days) ==
  LET z == days + 719468
      era == z \div 146097
      doe == z - era * 146097
      yoe == (doe - (doe \div 1460) + (doe \div 36524) - (doe \div 146096)) \div 365
      doy == doe - (365 * yoe + (yoe \div 4) - (yoe \div 100))
      mp == (5 * doy + 2) \div 153
      m == IF mp < 10 THEN mp + 3 ELSE mp - 9
  IN [y |-> yoe + era * 400 + (IF m <= 2 THEN 1 ELSE 0),
      m |-> m,
      d |-> doy - ((153 * mp + 2) \div 5) + 1]

\* the day number of a civil date
DaysFromCivil(y, m, d) ==
  LET yy == IF m <= 2 THEN y - 1 ELSE y
      era == yy \div 400
      yoe == yy - era * 400
      doy == ((153 * (IF m > 2 THEN m - 3 ELSE m + 9) + 2) \div 5) + d - 1
      doe == yoe * 365 + (yoe \div 4) - (yoe \div 100) + doy
  IN era * 146097 + doe - 719468

\* Date.prototype getters, local time
getTimezoneOffset(d, tz) == -tz
LocalSeconds(d, tz) == d.t + 60 * tz
getFullYear(d, tz) == CivilFromDays(LocalSeconds(d, tz) \div 86400).y
getMonth(d, tz) == CivilFromDays(LocalSeconds(d, tz) \div 86400).m - 1
getDate(d, tz) == CivilFromDays(LocalSeconds(d, tz) \div 86400).d
getHours(d, tz) == (LocalSeconds(d, tz) % 86400) \div 3600
getMinutes(d, tz) == (LocalSeconds(d, tz) % 3600) \div 60
getSeconds(d, tz) == LocalSeconds(d, tz) % 60

\* variant: no padding
padBare(n) == String(abs(n))

\* pad of isoWithLocalOffsetFromDate
pad(n) == padStart(String(abs(n)), 2)

\* App: isoWithLocalOffsetFromDate(d) in time zone tz
isoWithLocalOffsetFromDate(d, tz) ==
  LET tzo == -getTimezoneOffset(d, tz)
      sign == IF tzo >= 0 THEN "+" ELSE "-"
      hh == pad(abs(tzo) \div 60)
      mm == pad(abs(tzo) % 60)
  IN String(getFullYear(d, tz)) \o <<"-">> \o pad(getMonth(d, tz) + 1)
       \o <<"-">> \o pad(getDate(d, tz)) \o <<"T">> \o pad(getHours(d, tz))
       \o <<":">> \o pad(getMinutes(d, tz)) \o <<":">> \o pad(getSeconds(d, tz))
       \o <<sign>> \o hh \o <<":">> \o mm

\* Date.prototype.toISOString: the UTC fields, milliseconds and "Z"
toISOString(d) ==
  padStart(String(getFullYear(d, 0)), 4) \o <<"-">>
    \o padStart(String(getMonth(d, 0) + 1), 2) \o <<"-">>
    \o padStart(String(getDate(d, 0)), 2) \o <<"T">>
    \o padStart(String(getHours(d, 0)), 2) \o <<":">>
    \o padStart(String(getMinutes(d, 0)), 2) \o <<":">>
    \o padStart(String(getSeconds(d, 0)), 2) \o <<".">>
    \o padStart(String(d.ms), 3) \o <<"Z">>

\* new Date("YYYY-MM-DDTHH:mm:ss"): a date-time without offset is local time
DateFromLocalString(s, tz) ==
  [t |-> DaysFromCivil(Number(SubSeq(s, 1, 4)), Number(SubSeq(s, 6, 7)),
                       Number(SubSeq(s, 9, 10))) * 86400
         + Number(SubSeq(s, 12, 13)) * 3600 + Number(SubSeq(s, 15, 16)) * 60
         + Number(SubSeq(s, 18, 19)) - 60 * tz,
   ms |-> 0]

\* the Date d that getISOWithOffsetFromDateInput(dateInput) renders, now being
\* new Date()
dateOfInput(dateInput, now, tz) ==
  IF IsSome(dateInput) /\ Truthy(Get(dateInput))
  THEN IF IsoDatePattern(Get(dateInput))
       THEN DateFromLocalString(
              Get(dateInput) \o <<"T">> \o padStart(String(getHours(now, tz)), 2)
                \o <<":">> \o padStart(String(getMinutes(now, tz)), 2)
                \o <<":">> \o padStart(String(getSeconds(now, tz)), 2), tz)
       ELSE now
  ELSE now

\* DiagnosticReportForm: getISOWithOffsetFromDateInput(dateInput)
getISOWithOffsetFromDateInput(dateInput, now, tz) ==
  LET d == dateOfInput(dateInput, now, tz)
      tzOffsetMin == getTimezoneOffset(d, tz)
      sign == IF tzOffsetMin > 0 THEN "-" ELSE "+"
      offsetHr == padStart(String(abs(tzOffsetMin) \div 60), 2)
      offsetMin == padStart(String(abs(tzOffsetMin) % 60), 2)
      iso == toISOString(d)
  IN SubSeq(iso, 1, Len(iso) - 1) \o <<sign>> \o offsetHr \o <<":">> \o offsetMin

\* instants: three days around a year end and a leap day, seven times of day
ClockDays ==
  {DaysFromCivil(2023, 12, 31), DaysFromCivil(2024, 2, 29), DaysFromCivil(2024, 3, 1)}

ClockSeconds == {0, 1, 19799, 19800, 45296, 66600, 86399}

Instants == {day * 86400 + sec : day \in ClockDays, sec \in ClockSeconds}

\* offsets east of UTC in minutes: -09:30, -03:30, 0, +01:00, +05:30, +05:45, +12:45
TimeZones == {-570, -210, 0, 60, 330, 345, 765}

DateFieldInputs ==
  {None,
   Some(<<"2", "0", "2", "4", "-", "0", "3", "-", "0", "1">>),
   Some(<<"1", "5", "-", "0", "6", "-", "1", "9", "9", "0">>)}

InitTimestamps ==
  /\ mounted \in {"App", "DiagnosticReportForm"}
  /\ InitIdle
  /\ arg \in [now : [t : Instants, ms : {0, 250}], tz : TimeZones,
              dateInput : DateFieldInputs]
  /\ mounted = "App" => arg.dateInput = None
  /\ result = <<>>

\* App calls isoWithLocalOffsetFromDate(new Date())
isoWithLocalOffsetFromDateCall ==
  /\ mounted = "App"
  /\ result = <<>>
  /\ result' = <<isoWithLocalOffsetFromDate(arg.now, arg.tz)>>
  /\ UNCHANGED <<mounted, appVars, diagVars, arg>>

\* DiagnosticReportForm calls getISOWithOffsetFromDateInput(dateInput)
getISOWithOffsetFromDateInputCall ==
  /\ mounted = "DiagnosticReportForm"
  /\ result = <<>>
  /\ result' = <<getISOWithOffsetFromDateInput(arg.dateInput, arg.now, arg.tz)>>
  /\ UNCHANGED <<mounted, appVars, diagVars, arg>>

NextTimestamps == isoWithLocalOffsetFromDateCall \/ getISOWithOffsetFromDateInputCall

SpecTimestamps == InitTimestamps /\ [][NextTimestamps]_vars

\* ------------------------------------------- ABHA addresses: the calls
\* the elements roster arrays are drawn from
RosterItems ==
  {[kind |-> "null"],
   [kind |-> "string", s |-> <<>>],
   [kind |-> "string", s |-> AddrA],
   [kind |-> "string", s |-> AddrB],
   [kind |-> "number", n |-> 7],
   [kind |-> "object", obj |-> [address |-> AddrA, isPrimary |-> TRUE]],
   [kind |-> "object", obj |-> [address |-> AddrA, isPrimary |-> FALSE]],
   [kind |-> "object", obj |-> [address |-> AddrB]],
   [kind |-> "object", obj |-> [address |-> <<>>, isPrimary |-> TRUE]],
   [kind |-> "object", obj |-> [isPrimary |-> FALSE]]}

RosterArrays == SeqsUpTo(RosterItems, 0, MaxAddrs)

\* roster records: the array under additional_attributes, under the record
\* itself, under both, under neither
RosterRecords ==
  {[additional_attributes |-> ArrayOf(l), abha_addresses |-> Absent] : l \in RosterArrays}
  \cup {[additional_attributes |-> Absent, abha_addresses |-> ArrayOf(l)] : l \in RosterArrays}
  \cup {[additional_attributes |-> NotAnArray, abha_addresses |-> ArrayOf(l)] :
          l \in RosterArrays}
  \cup {[additional_attributes |-> ArrayOf(l),
         abha_addresses |-> ArrayOf(<<[kind |-> "string", s |-> AddrB]>>)] :
          l \in RosterArrays}
  \cup {[additional_attributes |-> Absent, abha_addresses |-> Absent],
        [additional_attributes |-> NotAnArray, abha_addresses |-> NotAnArray]}

InitAbha ==
  /\ mounted \in {"App", "DiagnosticReportForm"}
  /\ InitIdle
  /\ arg \in RosterRecords
  /\ result = <<>>

normalizeOfMounted(patientObj) ==
  IF mounted = "App" THEN normalizeAbhaAddresses(patientObj)
  ELSE diagNormalizeAbhaAddresses(patientObj)

\* normalizeAbhaAddresses(arg) of the mounted component's file
normalizeAbhaAddressesCall ==
  /\ result = <<>>
  /\ result' = <<normalizeOfMounted(arg)>>
  /\ UNCHANGED <<mounted, appVars, diagVars, arg>>

\* the list returned is stored as the record's abha_addresses and normalized
\* again
normalizeAgainCall ==
  /\ Len(result) = 1
  /\ arg' = [additional_attributes |-> Absent,
             abha_addresses |->
               ArrayOf([i \in 1..Len(result[1]) |->
                          [kind |-> "object", obj |-> result[1][i]]])]
  /\ result' = Append(result, normalizeOfMounted(arg'))
  /\ UNCHANGED <<mounted, appVars, diagVars>>

NextAbha == normalizeAbhaAddressesCall \/ normalizeAgainCall

SpecAbha == InitAbha /\ [][NextAbha]_vars

\* ------------------------------------------------- occurrence timestamps
\* the date-time strings new Date(s) reads as local time: YYYY-MM-DDTHH:mm
\* and YYYY-MM-DDTHH:mm:ss with a month, an hour, a minute and a second in range
IsLocalDateTimeString(s) ==
  /\ Len(s) \in {16, 19}
  /\ IsoDatePattern(SubSeq(s, 1, 10))
  /\ s[11] = "T" /\ s[14] = ":"
  /\ \A i \in {12, 13, 15, 16} : s[i] \in Digits
  /\ Len(s) = 19 => (s[17] = ":" /\ s[18] \in Digits /\ s[19] \in Digits)
  /\ Number(SubSeq(s, 6, 7)) \in 1..12
  /\ Number(SubSeq(s, 9, 10)) \in 1..31
  /\ Number(SubSeq(s, 12, 13)) \in 0..23
  /\ Number(SubSeq(s, 15, 16)) \in 0..59
  /\ Len(s) = 19 => Number(SubSeq(s, 18, 19)) \in 0..59

\* new Date(s) of a string that holds "T": None is the Invalid Date
DateFromString(s, tz) ==
  IF IsLocalDateTimeString(s)
  THEN Some(DateFromLocalString(IF Len(s) = 16 THEN s \o <<":", "0", "0">> ELSE s, tz))
  ELSE None

Returned(v) == [kind |-> "return", value |-> v]
Thrown(e) == [kind |-> "throw", value |-> e]

\* occ of buildImmunizationResources for an entry whose occurrenceDate is od,
\* new Date() being now: toISOString of an Invalid Date throws a RangeError
occurrenceDateTime(od, now, tz) ==
  IF ~Truthy(od) THEN Returned(toISOString(now))
  ELSE IF includes(od, "T")
       THEN IF IsSome(DateFromString(od, tz))
            THEN Returned(toISOString(Get(DateFromString(od, tz))))
            ELSE Thrown(<<"RangeError">>)
  ELSE IF IsSome(ddmmyyyyToISO(Some(od))) /\ Truthy(Get(ddmmyyyyToISO(Some(od))))
       THEN Returned(Get(ddmmyyyyToISO(Some(od))))
       ELSE Returned(toISOString(now))

\* strings that hold "T"
DateTimeStrings ==
  {<<"2", "0", "2", "4", "-", "0", "3", "-", "0", "1", "T", "1", "0", ":", "0", "0">>,
   <<"2", "0", "2", "3", "-", "1", "2", "-", "3", "1", "T", "2", "3", ":", "5", "9", ":", "5", "9">>,
   <<"T">>,
   <<"1", "5", "-", "0", "6", "-", "1", "9", "9", "0", "T">>,
   <<"2", "0", "2", "4", "-", "1", "3", "-", "0", "1", "T", "1", "0", ":", "0", "0">>}

OccurrenceDates == DateStrings \cup DateTimeStrings

InitOccurrence ==
  /\ mounted = "App"
  /\ InitIdle
  /\ arg \in [occurrenceDate : OccurrenceDates,
              now : [t : {DaysFromCivil(2024, 3, 1) * 86400 + 1,
                          DaysFromCivil(2023, 12, 31) * 86400 + 66600},
                     ms : {250}],
              tz : {-210, 0, 330}]
  /\ result = <<>>

\* buildImmunizationResources computes occ for an entry
buildImmunizationResourcesCall ==
  /\ mounted = "App"
  /\ result = <<>>
  /\ result' = <<occurrenceDateTime(arg.occurrenceDate, arg.now, arg.tz)>>
  /\ UNCHANGED <<mounted, appVars, diagVars, arg>>

NextOccurrence == buildImmunizationResourcesCall

SpecOccurrence == InitOccurrence /\ [][NextOccurrence]_vars

\* ------------------------------------------------------ repeated builds
\* uuidv4 replaced by a generator that returns a fixed sequence: once every
\* invocation has settled the sequence is rewound, the output of the session
\* so far being kept in result
rewindUuidv4 ==
  /\ mounted = "App"
  /\ Len(calls) >= 1
  /\ Len(result) < Len(calls)
  /\ \A k \in 1..Len(calls) : calls[k].pc \in {"invalid", "done", "rejected"}
  /\ uuidCalls' = 0
  /\ result' = Append(result, [call |-> Len(calls), jsonOut |-> jsonOut])
  /\ UNCHANGED <<mounted, diagVars, formVars, jsonOut, alerts, readsStarted,
                 calls, jsonOutSetBy, arg>>

NextReplay == NextBuild \/ rewindUuidv4

SpecReplay == InitFilled /\ [][NextReplay]_vars

\* ------------------------------------------------ the address of a patient
\* App: the ABHA select; it offers the values of abhaOptions
setSelectedAbha ==
  /\ Edit
  /\ \E i \in 1..Len(abhaOptions) :
       /\ abhaOptions[i].value # selectedAbha
       /\ selectedAbha' = abhaOptions[i].value
  /\ UNCHANGED <<patients, selectedPatientIdx, status, title, encounterText,
                 custodianName, immunizations, immRecText, files,
                 filePreviewNames, fileInputValue, abhaOptions>>

\* DiagnosticReportForm: mapGender(g) of a roster gender
mapGender(g) ==
  IF ~Truthy(g) THEN ""
  ELSE IF toLowerCase(g)[1] = "m" THEN "male"
  ELSE IF toLowerCase(g)[1] = "f" THEN "female"
  ELSE IF toLowerCase(g)[1] = "o" THEN "other"
  ELSE "unknown"

\* the roster entry p mapped into the patient form state
patientOfRoster(p) ==
  [name |-> p.name, mrn |-> p.mrn, gender |-> mapGender(p.gender)]

\* what selecting the roster entry at idx stores; patientsList[idx] is
\* undefined when idx is not an index of the list
selectPatient(list, idx) ==
  /\ diagSelectedPatientIdx' = idx
  /\ IF idx >= 0 /\ idx < Len(list)
     THEN /\ patient' = patientOfRoster(list[idx + 1])
          /\ abhaList' = diagNormalizeAbhaAddresses(list[idx + 1])
          /\ diagSelectedAbha' = firstValue(abhaList')
     ELSE /\ patient' = patient
          /\ abhaList' = <<>>
          /\ diagSelectedAbha' = <<>>

\* DiagnosticReportForm: the mount effect once patients.json has been fetched
fetchPatients ==
  /\ mounted = "DiagnosticReportForm"
  /\ patientsList = <<>>
  /\ patientsList' = Roster
  /\ selectPatient(Roster, 0)
  /\ UNCHANGED <<mounted, callVars, appVars, diagCodeText, issuedDate, results,
                 specimens, attachments, errorMsg, consoleLog, picks, submits>>

\* handlePatientSelect(e): the option chosen differs from the one shown; the
\* value of "-- Select patient --" is "" (None) and Number("") is 0
handlePatientSelect ==
  /\ mounted = "DiagnosticReportForm"
  /\ \E value \in {None} \cup {Some(i) : i \in 0..(Len(patientsList) - 1)} :
       /\ value # (IF diagSelectedPatientIdx < 0 THEN None
                   ELSE Some(diagSelectedPatientIdx))
       /\ selectPatient(patientsList, IF IsSome(value) THEN Get(value) ELSE 0)
  /\ UNCHANGED <<mounted, callVars, appVars, patientsList, diagCodeText,
                 issuedDate, results, specimens, attachments, errorMsg,
                 consoleLog, picks, submits>>

\* DiagnosticReportForm: the ABHA select; it offers the values of abhaList
diagSetSelectedAbha ==
  /\ mounted = "DiagnosticReportForm"
  /\ \E i \in 1..Len(abhaList) :
       /\ abhaList[i].value # diagSelectedAbha
       /\ diagSelectedAbha' = abhaList[i].value
  /\ UNCHANGED <<mounted, callVars, appVars, patientsList, diagSelectedPatientIdx,
                 abhaList, patient, diagCodeText, issuedDate, results, specimens,
                 attachments, errorMsg, consoleLog, picks, submits>>

NextSelect ==
  \/ setSelectedAbha
  \/ fetchPatients
  \/ handlePatientSelect
  \/ diagSetSelectedAbha

\* ------------------------------------- DiagnosticReportForm: rows of lists
rowVars == <<results, specimens>>

CodeTexts == {"", "Hb", "Glucose"}
TypeTexts == {"", "Blood sample", "Urine"}

\* addResult: a blank row is appended
addResult ==
  /\ mounted = "DiagnosticReportForm"
  /\ Len(results) < MaxRows
  /\ results' = Append(results, [codeText |-> <<"", Len(results) + 1>>,
                                 codeSnomed |-> "", value |-> ""])
  /\ UNCHANGED <<mounted, callVars, appVars, selectionVars, patient, diagCodeText,
                 issuedDate,
                 specimens, attachments, errorMsg, consoleLog, picks, submits>>

\* removeResult(i), i zero-based: clicked on an enabled button; the updater
\* returns prev while one row is left
removeResult ==
  /\ mounted = "DiagnosticReportForm"
  /\ ~removeDisabled(results)
  /\ \E i \in 0..(Len(results) - 1) :
       results' = IF Len(results) <= 1 THEN results ELSE FilterOutIndex(results, i)
  /\ UNCHANGED <<mounted, callVars, appVars, selectionVars, patient, diagCodeText,
                 issuedDate,
                 specimens, attachments, errorMsg, consoleLog, picks, submits>>

\* updateResult(i, "codeText", value)
updateResult ==
  /\ mounted = "DiagnosticReportForm"
  /\ \E i \in 0..(Len(results) - 1) : \E val \in CodeTexts :
       /\ val # results[i + 1].codeText[1]
       /\ results' = [results EXCEPT ![i + 1].codeText = <<val, @[2]>>]
  /\ UNCHANGED <<mounted, callVars, appVars, selectionVars, patient, diagCodeText,
                 issuedDate,
                 specimens, attachments, errorMsg, consoleLog, picks, submits>>

\* addSpecimen
addSpecimen ==
  /\ mounted = "DiagnosticReportForm"
  /\ Len(specimens) < MaxRows
  /\ specimens' = Append(specimens, [typeText |-> <<"", Len(specimens) + 1>>])
  /\ UNCHANGED <<mounted, callVars, appVars, selectionVars, patient, diagCodeText,
                 issuedDate,
                 results, attachments, errorMsg, consoleLog, picks, submits>>

\* removeSpecimen(i)
removeSpecimen ==
  /\ mounted = "DiagnosticReportForm"
  /\ ~removeDisabled(specimens)
  /\ \E i \in 0..(Len(specimens) - 1) :
       specimens' = IF Len(specimens) <= 1 THEN specimens
                    ELSE FilterOutIndex(specimens, i)
  /\ UNCHANGED <<mounted, callVars, appVars, selectionVars, patient, diagCodeText,
                 issuedDate,
                 results, attachments, errorMsg, consoleLog, picks, submits>>

\* updateSpecimen(i, "typeText", value)
updateSpecimen ==
  /\ mounted = "DiagnosticReportForm"
  /\ \E i \in 0..(Len(specimens) - 1) : \E val \in TypeTexts :
       /\ val # specimens[i + 1].typeText[1]
       /\ specimens' = [specimens EXCEPT ![i + 1].typeText = <<val, @[2]>>]
  /\ UNCHANGED <<mounted, callVars, appVars, selectionVars, patient, diagCodeText,
                 issuedDate,
                 results, attachments, errorMsg, consoleLog, picks, submits>>

NextRows ==
  \/ addResult
  \/ removeResult
  \/ updateResult
  \/ addSpecimen
  \/ removeSpecimen
  \/ updateSpecimen

\* either form, as constructed, edited through its inputs and buttons
InitEditSurface ==
  /\ mounted \in {"App", "DiagnosticReportForm"}
  /\ InitIdle
  /\ InitNoCall

NextEditSurface == NextEdit \/ NextRows \/ NextSelect

SpecEditSurface == InitEditSurface /\ [][NextEditSurface]_vars

\* ------------------------------------------ picking attachments repeatedly
MaxRepicks == 2

\* the user picks files again while earlier reads may still be pending
handleAttachmentsChangeAgain ==
  changeAttachments(MaxRepicks, {<<FileA>>, <<FileB>>, <<FileA, FileB>>})

NextRepick ==
  \/ handleAttachmentsChangeAgain
  \/ attachmentOnload
  \/ attachmentOnerror

SpecRepick == InitDiagFilled /\ [][NextRepick]_vars

\* ============================================================ properties
\* ----------------------------------------------------- reading a bundle
FullUrls(b) == {b.entry[i].fullUrl : i \in 1..Len(b.entry)}

SeqRefs(s) == {s[i].reference : i \in 1..Len(s)}

SectionRefs(r) ==
  UNION {IF IsSome(r.section[i].entry) THEN SeqRefs(Get(r.section[i].entry))
         ELSE {} : i \in 1..Len(r.section)}

AttachmentUrls(r) ==
  {r.content[i].attachment.url :
     i \in {j \in 1..Len(r.content) : "url" \in DOMAIN r.content[j].attachment}}

\* every reference string a resource carries
ReferencesOf(r) ==
  CASE r.resourceType = "Composition" ->
         {r.subject.reference} \cup SeqRefs(r.author) \cup SeqRefs(r.encounter)
           \cup SeqRefs(r.custodian) \cup SectionRefs(r)
    [] r.resourceType \in {"Immunization", "ImmunizationRecommendation"} ->
         {r.patient.reference}
    [] r.resourceType = "Encounter" -> {r.subject.reference}
    [] r.resourceType = "DocumentReference" ->
         {r.subject.reference} \cup AttachmentUrls(r)
    [] r.resourceType = "DiagnosticReport" ->
         {r.subject.reference} \cup SeqRefs(r.performer) \cup SeqRefs(r.result)
           \cup SeqRefs(r.specimen)
    [] r.resourceType = "Observation" ->
         {r.subject.reference} \cup SeqRefs(r.performer)
    [] r.resourceType = "Specimen" -> {r.subject.reference}
    [] OTHER -> {}

Closed(b) ==
  \A i \in 1..Len(b.entry) : ReferencesOf(b.entry[i].resource) \subseteq FullUrls(b)

ResourcesOfType(b, t) ==
  LET es == SelectSeq(b.entry, LAMBDA e : e.resource.resourceType = t)
  IN [j \in 1..Len(es) |-> es[j].resource]

TypesOf(b) == [i \in 1..Len(b.entry) |-> b.entry[i].resource.resourceType]

\* the invocation whose setJsonOut wrote the current jsonOut
Producer == jsonOutSetBy[Len(jsonOutSetBy)]

AllocatedIds(ids) ==
  ({ids.compId, ids.patientId, ids.practitionerId, ids.encounterId,
    ids.custodianId, ids.immRecId} \ {Null})
  \cup Range(ids.immIds) \cup Range(ids.docBinaryIds) \cup Range(ids.docRefIds)

Times(n, x) == [j \in 1..n |-> x]

MaxOf(a, b) == IF a >= b THEN a ELSE b

OnlyWhitespace(s) == \A i \in 1..Len(s) : s[i] \in {" ", "\t", "\n"}

Count(s, x) == Cardinality({i \in 1..Len(s) : s[i] = x})

\* C1: referential closure. In every bundle produced by onBuildBundle (held by
\* jsonOut) and by buildBundle (written by console.log), every reference string
\* carried by a resource is the fullUrl of an entry of the same bundle.
C1_ReferentialClosure ==
  /\ IsSome(jsonOut) => Closed(Get(jsonOut))
  /\ IsSome(consoleLog) => Closed(Get(consoleLog))

\* a bundle whose Composition references an encounter, a custodian, a
\* recommendation and two DocumentReferences, each pointing at its Binary
C1_Witness ==
  /\ IsSome(jsonOut)
  /\ LET comp == Get(jsonOut).entry[1].resource
     IN /\ IsSome(comp.encounter)
        /\ IsSome(comp.custodian)
        /\ \E i \in 1..Len(Get(comp.section[1].entry)) :
             Get(comp.section[1].entry)[i].type = "ImmunizationRecommendation"
        /\ Len(ResourcesOfType(Get(jsonOut), "DocumentReference")) = 2

\* C2: with pairwise distinct identifiers, every identifier allocated by an
\* onBuildBundle invocation is the id of exactly one entry of its bundle, no
\* two entries share a fullUrl, and each fullUrl is "urn:uuid:" followed by
\* the id of the entry's own resource.
C2_IdsAndFullUrls ==
  IsSome(jsonOut) =>
    LET b == Get(jsonOut)
        ids == calls[Producer].ids
    IN /\ \A id \in AllocatedIds(ids) :
            Cardinality({i \in 1..Len(b.entry) : b.entry[i].resource.id = id}) = 1
       /\ \A i, j \in 1..Len(b.entry) :
            b.entry[i].fullUrl = b.entry[j].fullUrl => i = j
       /\ \A i \in 1..Len(b.entry) :
            b.entry[i].fullUrl = <<"urn:uuid:", b.entry[i].resource.id>>

\* a bundle built by the second invocation, with two files: its identifiers
\* do not start at the first uuid
C2_Witness ==
  /\ IsSome(jsonOut)
  /\ Producer = 2
  /\ Len(calls[Producer].form.files) = 2
  /\ Cardinality(AllocatedIds(calls[Producer].ids)) >= 9

\* the resource types the entry list must show for a form f, in order
ExpectedTypes(f) ==
  <<"Composition", "Patient", "Practitioner">>
  \o (IF f.encounterText # <<>> THEN <<"Encounter">> ELSE <<>>)
  \o (IF f.custodianName # <<>> THEN <<"Organization">> ELSE <<>>)
  \o Times(Len(f.immunizations), "Immunization")
  \o (IF f.immRecText # <<>> THEN <<"ImmunizationRecommendation">> ELSE <<>>)
  \o Times(MaxOf(1, Len(f.files)), "DocumentReference")
  \o Times(MaxOf(1, Len(f.files)), "Binary")

\* C3: the entry list of a produced bundle is Composition, Patient,
\* Practitioner, Encounter if present, Organization if present, the
\* Immunizations in the order of the immunizations list, the recommendation if
\* present, the DocumentReferences in file order, the Binaries in file order.
C3_EntryOrder ==
  IsSome(jsonOut) =>
    LET b == Get(jsonOut)
        f == calls[Producer].form
        imms == ResourcesOfType(b, "Immunization")
        drs == ResourcesOfType(b, "DocumentReference")
        bins == ResourcesOfType(b, "Binary")
    IN /\ TypesOf(b) = ExpectedTypes(f)
       /\ \A j \in 1..Len(f.immunizations) :
            f.immunizations[j].vaccineText # <<>> =>
              imms[j].vaccineCode.text = f.immunizations[j].vaccineText
       /\ \A j \in 1..Len(f.files) :
            /\ drs[j].content[1].attachment.title = f.files[j].name
            /\ bins[j].data = <<f.files[j].bytes>>

\* every optional resource present, two different immunizations, two files
C3_Witness ==
  /\ IsSome(jsonOut)
  /\ LET f == calls[Producer].form
     IN /\ f.encounterText # <<>>
        /\ f.custodianName # <<>>
        /\ f.immRecText # <<>>
        /\ Len(f.immunizations) = 2
        /\ f.immunizations[1].vaccineText # f.immunizations[2].vaccineText
        /\ f.immunizations[2].vaccineText = BCG
        /\ Len(f.files) = 2

\* C7: atomic failure on a decode error. An invocation one of whose file reads
\* failed never calls setJsonOut, whichever file failed and however many were
\* decoded before it: jsonOut holds no resource carrying one of its identifiers.
C7_AtomicFailure ==
  \A k \in 1..Len(calls) :
    calls[k].readError =>
      /\ k \notin Range(jsonOutSetBy)
      /\ calls[k].pc = "rejected"
      /\ IsSome(jsonOut) =>
           \A i \in 1..Len(Get(jsonOut).entry) :
             Get(jsonOut).entry[i].resource.id \notin AllocatedIds(calls[k].ids)

\* the second file of an invocation failed after the first one was decoded
C7_Witness ==
  \E k \in 1..Len(calls) :
    /\ calls[k].readError
    /\ calls[k].i = 2
    /\ Len(calls[k].binaries) = 1

\* C8: a new build never runs while another one is suspended on a file read:
\* at no time are two invocations in progress.
C8_NoConcurrentBuilds ==
  Cardinality({k \in 1..Len(calls) : calls[k].pc = "reading"}) <= 1

\* the names of the files of pick p whose read fired load, in picked order
LoadedNames(p) ==
  LET idx == SelectSeq([j \in 1..Len(p.files) |-> j],
                       LAMBDA j : p.slots[j].outcome = "load")
  IN [n \in 1..Len(idx) |-> p.files[idx[n]].name]

\* C9: attachment order is preserved. The DocumentReference and Binary entries
\* follow the files list of the invocation; the list handleAttachmentsChange
\* stores follows the picked files whatever order the reads complete in; the
\* composer runs only after every file has been decoded.
C9_AttachmentOrder ==
  /\ IsSome(jsonOut) =>
       LET b == Get(jsonOut)
           f == calls[Producer].form
           drs == ResourcesOfType(b, "DocumentReference")
           bins == ResourcesOfType(b, "Binary")
       IN Len(f.files) > 0 =>
            /\ [j \in 1..Len(drs) |-> drs[j].content[1].attachment.title]
                 = [j \in 1..Len(f.files) |-> f.files[j].name]
            /\ [j \in 1..Len(bins) |-> bins[j].data]
                 = [j \in 1..Len(f.files) |-> <<f.files[j].bytes>>]
  /\ \A k \in 1..Len(calls) :
       calls[k].pc = "done" =>
         /\ Len(calls[k].binaries) = MaxOf(1, Len(calls[k].form.files))
         /\ calls[k].i = Len(calls[k].binaries) + 1
  /\ \A k \in 1..Len(picks) :
       picks[k].pc = "done" =>
         /\ \A j \in 1..Len(picks[k].slots) : picks[k].slots[j].outcome # "pending"
         /\ [n \in 1..Len(Get(picks[k].stored)) |-> Get(picks[k].stored)[n].name]
              = LoadedNames(picks[k])

\* two picked files, both read, the second one's read completing first
C9_Witness ==
  \E k \in 1..Len(picks) :
    /\ picks[k].pc = "done"
    /\ picks[k].order = <<2, 1>>
    /\ Len(Get(picks[k].stored)) = 2

\* C10: a produced bundle holds max(1, number of files) Binary resources and
\* as many DocumentReferences, the i-th DocumentReference's attachment url
\* references the i-th Binary, each Binary is referenced by exactly one
\* DocumentReference, and with no file the pair carries the placeholder
\* payload with media type application/pdf.
C10_AttachmentPairs ==
  IsSome(jsonOut) =>
    LET b == Get(jsonOut)
        n == Len(calls[Producer].form.files)
        drs == ResourcesOfType(b, "DocumentReference")
        bins == ResourcesOfType(b, "Binary")
    IN /\ Len(bins) = MaxOf(1, n)
       /\ Len(drs) = MaxOf(1, n)
       /\ \A i \in 1..Len(drs) :
            drs[i].content[1].attachment.url = <<"urn:uuid:", bins[i].id>>
       /\ \A i \in 1..Len(bins) :
            Cardinality({j \in 1..Len(drs) :
                           drs[j].content[1].attachment.url
                             = <<"urn:uuid:", bins[i].id>>}) = 1
       /\ n = 0 =>
            /\ bins[1].data = <<"JVBERi0xLjQKJeLjz9MK">>
            /\ bins[1].contentType = "application/pdf"
            /\ drs[1].content[1].attachment.contentType = "application/pdf"

\* a bundle built with no uploaded file
C10_Witness ==
  /\ IsSome(jsonOut)
  /\ calls[Producer].form.files = <<>>
  /\ Len(ResourcesOfType(Get(jsonOut), "Binary")) = 1

\* the four conditions of validateBeforeBuild, read off a captured form
NoPatient(f) == f.selectedPatient = <<>>

NoStatus(f) == f.status = ""

BlankTitle(f) == OnlyWhitespace(f.title)

NoLinkableContent(f) ==
  /\ \A i \in 1..Len(f.immunizations) : OnlyWhitespace(f.immunizations[i].vaccineText)
  /\ OnlyWhitespace(f.immRecText)
  /\ f.files = <<>>

\* C4: gate enforcement. With a patient selected and no immunization carrying
\* non-whitespace vaccine text, no recommendation text and no file, the
\* validation reports the missing-content error and the build stops; with a
\* patient selected, a title that is not blank, a status chosen, exactly one
\* immunization with non-whitespace vaccine text, no recommendation and no
\* file, the validation reports nothing and the invocation produces a bundle.
C4_GateEnforcement ==
  \A k \in 1..Len(calls) :
    LET f == calls[k].form
    IN /\ (~NoPatient(f) /\ NoLinkableContent(f)) =>
            /\ Count(calls[k].errors,
                     "Add at least one immunization, or an immunization recommendation, or upload at least one document.") = 1
            /\ calls[k].pc = "invalid"
            /\ k \notin Range(jsonOutSetBy)
       /\ (/\ ~NoPatient(f) /\ ~BlankTitle(f) /\ ~NoStatus(f)
           /\ Len(f.immunizations) = 1
           /\ ~OnlyWhitespace(f.immunizations[1].vaccineText)
           /\ f.immRecText = <<>>
           /\ f.files = <<>>) =>
            /\ calls[k].errors = <<>>
            /\ calls[k].pc = "done"
            /\ k \in Range(jsonOutSetBy)

\* a patient is selected, the two immunizations are empty and blank, the
\* recommendation is blank, no file: the only error is the missing content
C4_Witness ==
  \E k \in 1..Len(calls) :
    LET f == calls[k].form
    IN /\ ~NoPatient(f)
       /\ Len(f.immunizations) = 2
       /\ f.immunizations[2].vaccineText = BlankText
       /\ f.immRecText = BlankText
       /\ NoLinkableContent(f)
       /\ Len(calls[k].errors) = 1
       /\ calls[k].pc = "invalid"

\* C5: every violation is collected. For each combination of the four
\* conditions the error list holds exactly one message per violated condition
\* and none for a satisfied one, and an invocation that fails validation
\* raises exactly one alert, which carries the whole list.
C5_AllViolationsCollected ==
  \A k \in 1..Len(calls) :
    LET f == calls[k].form
        errs == calls[k].errors
        n(c) == IF c THEN 1 ELSE 0
    IN /\ Count(errs, "Select a patient (required).") = n(NoPatient(f))
       /\ Count(errs, "Status is required.") = n(NoStatus(f))
       /\ Count(errs, "Title is required.") = n(BlankTitle(f))
       /\ Count(errs,
                "Add at least one immunization, or an immunization recommendation, or upload at least one document.")
            = n(NoLinkableContent(f))
       /\ Len(errs) = n(NoPatient(f)) + n(NoStatus(f)) + n(BlankTitle(f))
                        + n(NoLinkableContent(f))
       /\ Len(errs) > 0 =>
            /\ Cardinality({a \in 1..Len(alerts) : alerts[a].by = k}) = 1
            /\ \A a \in 1..Len(alerts) :
                 alerts[a].by = k =>
                   alerts[a].kind = "Please fix:" /\ alerts[a].lines = errs

\* all four conditions violated at once, reported by one alert of four lines
C5_Witness ==
  \E k \in 1..Len(calls) : \E a \in 1..Len(alerts) :
    /\ Len(calls[k].errors) = 4
    /\ alerts[a].by = k
    /\ Len(alerts[a].lines) = 4

\* C6: an invocation whose validation returns at least one error stops there:
\* its step generates no identifier, starts no file read, composes nothing and
\* leaves jsonOut as it was, and the invocation never does anything later.
C6_InvalidBuildStops ==
  [][/\ (Len(calls') = Len(calls) + 1
          /\ Len(validateBeforeBuild(calls'[Len(calls')].form)) > 0) =>
            /\ uuidCalls' = uuidCalls
            /\ readsStarted' = readsStarted
            /\ jsonOut' = jsonOut
            /\ jsonOutSetBy' = jsonOutSetBy
            /\ calls'[Len(calls')].ids = NoIds
            /\ calls'[Len(calls')].binaries = <<>>
            /\ calls'[Len(calls')].docRefs = <<>>
     /\ \A k \in 1..Len(calls) :
          Len(validateBeforeBuild(calls[k].form)) > 0 => calls'[k] = calls[k]
    ]_vars

\* a bundle was generated, the title was then cleared, and the next click
\* failed validation while jsonOut still held the earlier bundle
C6_Witness ==
  /\ IsSome(jsonOut)
  /\ Len(calls) = 2
  /\ jsonOutSetBy = <<1>>
  /\ calls[2].pc = "invalid"
  /\ calls[2].errors = <<"Title is required.">>

UrnsOfType(b, t) ==
  LET rs == ResourcesOfType(b, t)
  IN [j \in 1..Len(rs) |-> <<"urn:uuid:", rs[j].id>>]

\* C11: the section entry list of the Composition of a produced bundle is one
\* reference to each Immunization in immunizations-list order, then one to the
\* ImmunizationRecommendation if there is one, then one to each
\* DocumentReference in file order, and nothing else; each of these resources
\* is referenced by exactly one section entry, and no section entry references
\* a Binary, the Patient or the Practitioner.
C11_SectionEntries ==
  IsSome(jsonOut) =>
    LET b == Get(jsonOut)
        f == calls[Producer].form
        sec == Get(b.entry[1].resource.section[1].entry)
        refs == [j \in 1..Len(sec) |-> sec[j].reference]
        imms == ResourcesOfType(b, "Immunization")
    IN /\ Len(b.entry[1].resource.section) = 1
       /\ refs = UrnsOfType(b, "Immunization")
                   \o UrnsOfType(b, "ImmunizationRecommendation")
                   \o UrnsOfType(b, "DocumentReference")
       /\ [j \in 1..Len(sec) |-> sec[j].type]
            = Times(Len(f.immunizations), "Immunization")
                \o (IF f.immRecText # <<>> THEN <<"ImmunizationRecommendation">>
                    ELSE <<>>)
                \o Times(MaxOf(1, Len(f.files)), "DocumentReference")
       /\ \A j \in 1..Len(f.immunizations) :
            f.immunizations[j].vaccineText # <<>> =>
              imms[j].vaccineCode.text = f.immunizations[j].vaccineText
       /\ \A i \in 1..Len(b.entry) :
            LET r == b.entry[i].resource
            IN Count(refs, b.entry[i].fullUrl)
                 = IF r.resourceType \in {"Immunization", "ImmunizationRecommendation",
                                          "DocumentReference"}
                   THEN 1 ELSE 0

\* two immunizations, a recommendation and two files: five section entries
C11_Witness ==
  /\ IsSome(jsonOut)
  /\ Len(Get(Get(jsonOut).entry[1].resource.section[1].entry)) = 5
  /\ Get(Get(jsonOut).entry[1].resource.section[1].entry)[3].type
       = "ImmunizationRecommendation"

ResourceIds(b) == [i \in 1..Len(b.entry) |-> b.entry[i].resource.id]

\* the identifiers of a bundle: one per entry, the bundle id, the identifier value
FreshIn(b, idNo, valueNo) ==
  /\ IsInjective(ResourceIds(b))
  /\ idNo # valueNo
  /\ idNo \notin Range(ResourceIds(b))
  /\ valueNo \notin Range(ResourceIds(b))

\* C12: identifier freshness. An assembly calls the identifier generator once
\* per resource of its bundle, once for the bundle id and once for the bundle
\* identifier value, and no two resources of the bundle share an identifier.
\* Stated on every step: what a click allocates, what setJsonOut has consumed,
\* and what one buildBundle of the diagnostic report form consumes.
C12_IdentifierFreshness ==
  [][/\ Len(calls') = Len(calls) + 1 =>
          LET c == calls'[Len(calls')]
          IN /\ uuidCalls' - uuidCalls = c.uuids
             /\ c.pc # "invalid" =>
                  /\ Cardinality(AllocatedIds(c.ids)) = IdsAllocated(c.form)
                  /\ c.uuids = IdsAllocated(c.form) + (IF c.pc = "done" THEN 2 ELSE 0)
     /\ jsonOut' # jsonOut =>
          LET b == Get(jsonOut')
              c == calls'[jsonOutSetBy'[Len(jsonOutSetBy')]]
          IN /\ c.uuids = Len(b.entry) + 2
             /\ Range(ResourceIds(b)) = AllocatedIds(c.ids)
             /\ FreshIn(b, b.id[2], b.identifier.value[2])
     /\ consoleLog' # consoleLog =>
          LET b == Get(consoleLog')
          IN /\ uuidCalls' - uuidCalls = Len(b.entry) + 2
             /\ FreshIn(b, b.id[2], b.identifier.value[2])
    ]_vars

\* either a bundle of at least nine resources built by a second invocation
\* after the first one was rejected, or a diagnostic report bundle with two
\* specimens and two documents
C12_Witness ==
  \/ /\ IsSome(jsonOut)
     /\ Producer = 2
     /\ Len(Get(jsonOut).entry) >= 9
     /\ calls[1].pc = "rejected"
  \/ /\ IsSome(consoleLog)
     /\ Len(ResourcesOfType(Get(consoleLog), "DocumentReference")) = 2
     /\ Len(ResourcesOfType(Get(consoleLog), "Specimen")) = 2

ClosedGenderSet ==
  {<<"m","a","l","e">>, <<"f","e","m","a","l","e">>, <<"o","t","h","e","r">>,
   <<"u","n","k","n","o","w","n">>}

\* the gender the first letter of a roster value g selects
GenderByFirstLetter(g) ==
  IF g[1] \in {"m", "M"} THEN <<"m","a","l","e">>
  ELSE IF g[1] \in {"f", "F"} THEN <<"f","e","m","a","l","e">>
  ELSE IF g[1] \in {"o", "O"} THEN <<"o","t","h","e","r">>
  ELSE <<"u","n","k","n","o","w","n">>

\* C16: the gender on the Patient resource of a produced bundle is one of
\* male, female, other, unknown, selected case-insensitively by the first
\* letter of the roster value; a roster gender of "F" is emitted as "female".
C16_GenderClosedSet ==
  IsSome(jsonOut) =>
    LET p == Get(calls[Producer].form.selectedPatient)
        emitted == Get(jsonOut).entry[2].resource.gender
    IN p.gender # <<>> =>
         /\ IsSome(emitted)
         /\ Get(emitted) \in ClosedGenderSet
         /\ Get(emitted) = GenderByFirstLetter(p.gender)

\* C17: a produced bundle has type "document" and 3 + (1 if encounter text) +
\* (1 if custodian name) + (number of immunizations) + (1 if recommendation
\* text) + 2 * max(1, number of files) entries; with one immunization, no
\* optional field and no file it has exactly 6 entries.
C17_EntryCount ==
  IsSome(jsonOut) =>
    LET b == Get(jsonOut)
        f == calls[Producer].form
        n(c) == IF c THEN 1 ELSE 0
    IN /\ b.type = "document"
       /\ Len(b.entry) = 3 + n(f.encounterText # <<>>) + n(f.custodianName # <<>>)
                           + Len(f.immunizations) + n(f.immRecText # <<>>)
                           + 2 * MaxOf(1, Len(f.files))
       /\ (/\ Len(f.immunizations) = 1 /\ f.encounterText = <<>>
           /\ f.custodianName = <<>> /\ f.immRecText = <<>> /\ f.files = <<>>) =>
            TypesOf(b) = <<"Composition", "Patient", "Practitioner",
                           "Immunization", "DocumentReference", "Binary">>

\* one immunization, no optional field, no file: six entries
C17_Witness ==
  /\ IsSome(jsonOut)
  /\ Len(Get(jsonOut).entry) = 6
  /\ Len(calls[Producer].form.immunizations) = 1
  /\ calls[Producer].form.files = <<>>

IsDigits(s) == \A i \in 1..Len(s) : s[i] \in Digits

\* YYYY-MM-DD
IsYmd(s) ==
  /\ Len(s) = 10
  /\ s[5] = "-" /\ s[8] = "-"
  /\ IsDigits(SubSeq(s, 1, 4)) /\ IsDigits(SubSeq(s, 6, 7)) /\ IsDigits(SubSeq(s, 9, 10))

\* DD-MM-YYYY or DD/MM/YYYY
IsDmy(s) ==
  /\ Len(s) = 10
  /\ s[3] \in {"-", "/"} /\ s[6] = s[3]
  /\ IsDigits(SubSeq(s, 1, 2)) /\ IsDigits(SubSeq(s, 4, 5)) /\ IsDigits(SubSeq(s, 7, 10))

\* day, month and four-digit year with one separator, the day and the month
\* of one or two digits
IsDayMonthYear(s) ==
  \E i \in 2..3 : \E j \in (i + 2)..(i + 3) :
    /\ Len(s) = j + 4
    /\ s[i] \in {"-", "/"} /\ s[j] = s[i]
    /\ IsDigits(SubSeq(s, 1, i - 1))
    /\ IsDigits(SubSeq(s, i + 1, j - 1))
    /\ IsDigits(SubSeq(s, j + 1, j + 4))

StripSpaces(s) ==
  LET keep == {i \in 1..Len(s) : s[i] # " "}
  IN IF keep = {} THEN <<>>
     ELSE SubSeq(s, CHOOSE i \in keep : \A j \in keep : i <= j,
                    CHOOSE i \in keep : \A j \in keep : i >= j)

\* C13: date-only normalization in both source files. YYYY-MM-DD is returned
\* unchanged, DD-MM-YYYY and DD/MM/YYYY are returned as YYYY-MM-DD, and every
\* other input yields an empty or undefined result. (Inputs that are a
\* recognized form once surrounding spaces are removed, or a day, month and
\* four-digit year with one-digit day or month, are not counted as "other".)
C13_DateOnlyNormalization ==
  result # <<>> =>
    LET r == result[1]
        s == IF IsSome(arg) THEN Get(arg) ELSE <<>>
    IN /\ IsYmd(s) => r = Some(s)
       /\ IsDmy(s) =>
            r = Some(SubSeq(s, 7, 10) \o <<"-">> \o SubSeq(s, 4, 5)
                       \o <<"-">> \o SubSeq(s, 1, 2))
       /\ (~IsYmd(StripSpaces(s)) /\ ~IsDayMonthYear(StripSpaces(s))) =>
            r \in {None, Some(<<>>)}

\* n written with two digits, y with four
TwoDigits(n) == <<DigitChars[(n \div 10) + 1], DigitChars[(n % 10) + 1]>>

FourDigits(y) == TwoDigits(y \div 100) \o TwoDigits(y % 100)

\* the instant (seconds since the epoch) a timestamp denotes: its date and
\* time fields are the first 19 characters, its offset the last 6
InstantOf(ts) ==
  LET off == SubSeq(ts, Len(ts) - 5, Len(ts))
      east == Number(SubSeq(off, 2, 3)) * 60 + Number(SubSeq(off, 5, 6))
  IN DaysFromCivil(Number(SubSeq(ts, 1, 4)), Number(SubSeq(ts, 6, 7)),
                   Number(SubSeq(ts, 9, 10))) * 86400
       + Number(SubSeq(ts, 12, 13)) * 3600 + Number(SubSeq(ts, 15, 16)) * 60
       + Number(SubSeq(ts, 18, 19))
       - 60 * (IF off[1] = "-" THEN -east ELSE east)

\* C14: isoWithLocalOffsetFromDate renders YYYY-MM-DDTHH:mm:ss+HH:MM (or
\* -HH:MM): the fields are the local wall-clock fields padded to two digits,
\* the sign is + when local time is at or ahead of UTC, the offset is
\* floor(|offset| / 60) and |offset| mod 60 padded to two digits; the output
\* denotes the rendered instant, and normalizing the parsed output gives the
\* same string.
C14_LocalOffsetTimestamp ==
  (mounted = "App" /\ result # <<>>) =>
    LET out == result[1]
        tz == arg.tz
        loc == arg.now.t + 60 * tz
        civ == CivilFromDays(loc \div 86400)
        mag == IF tz < 0 THEN -tz ELSE tz
    IN /\ out = FourDigits(civ.y) \o <<"-">> \o TwoDigits(civ.m) \o <<"-">>
                  \o TwoDigits(civ.d) \o <<"T">>
                  \o TwoDigits((loc % 86400) \div 3600) \o <<":">>
                  \o TwoDigits((loc % 3600) \div 60) \o <<":">>
                  \o TwoDigits(loc % 60)
                  \o <<IF tz >= 0 THEN "+" ELSE "-">>
                  \o TwoDigits(mag \div 60) \o <<":">> \o TwoDigits(mag % 60)
       /\ InstantOf(out) = arg.now.t
       /\ isoWithLocalOffsetFromDate([t |-> InstantOf(out), ms |-> 0], tz) = out

\* an offset of -09:30 that moves the local date back to the leap day, with
\* one-digit seconds
C14_Witness ==
  /\ mounted = "App"
  /\ result # <<>>
  /\ arg.tz = -570
  /\ arg.now.t = DaysFromCivil(2024, 3, 1) * 86400 + 1
  /\ SubSeq(result[1], 1, 10) = <<"2", "0", "2", "4", "-", "0", "2", "-", "2", "9">>

\* C15: the timestamp getISOWithOffsetFromDateInput renders denotes, with its
\* embedded offset, the instant of the local date and time it was built from,
\* whatever the local offset.
C15_DiagTimestampInstant ==
  (mounted = "DiagnosticReportForm" /\ result # <<>>) =>
    LET tz == arg.tz
        localNow == arg.now.t + 60 * tz
        built == IF IsSome(arg.dateInput) /\ IsYmd(Get(arg.dateInput))
                 THEN LET s == Get(arg.dateInput)
                      IN DaysFromCivil(Number(SubSeq(s, 1, 4)), Number(SubSeq(s, 6, 7)),
                                       Number(SubSeq(s, 9, 10))) * 86400
                           + (localNow % 86400) - 60 * tz
                 ELSE arg.now.t
    IN InstantOf(result[1]) = built

\* ---------------------------------------------------- address normalization
\* the raw list the reference mapping reads: the array under
\* additional_attributes, else the array under the record, else empty
ReferenceRaw(rec) ==
  IF rec.additional_attributes.kind = "array" THEN rec.additional_attributes.items
  ELSE IF rec.abha_addresses.kind = "array" THEN rec.abha_addresses.items
  ELSE <<>>

Flagged(obj) == "isPrimary" \in DOMAIN obj /\ obj.isPrimary

HasAddress(obj) == "address" \in DOMAIN obj /\ Len(obj.address) > 0

\* the entries an element of the raw list contributes: one or none
ReferenceEntries(item) ==
  IF item.kind = "string" /\ Len(item.s) > 0
  THEN {[value |-> item.s, label |-> item.s, primary |-> FALSE]}
  ELSE IF item.kind = "object" /\ HasAddress(item.obj)
  THEN {[value |-> item.obj.address,
         label |-> IF Flagged(item.obj)
                   THEN item.obj.address \o <<" ", "(", "p", "r", "i", "m", "a", "r", "y", ")">>
                   ELSE item.obj.address,
         primary |-> Flagged(item.obj)]}
  ELSE IF item.kind = "object"
  THEN {[value |-> JSONstringify(item.obj), label |-> JSONstringify(item.obj),
         primary |-> Flagged(item.obj)]}
  ELSE {}

\* a precedes b or equals it, character by character, in the collation
LexLeq(a, b) ==
  \E k \in 0..Len(a) :
    /\ k <= Len(b)
    /\ \A i \in 1..k : a[i] = b[i]
    /\ \/ k = Len(a)
       \/ k < Len(b) /\ CollationRank(a[k + 1]) < CollationRank(b[k + 1])

\* out holds exactly the entries of the reference mapping of rec, each as
\* often as the raw list yields it, primary ones first, then by value
IsReferenceMapping(rec, out) ==
  LET raw == ReferenceRaw(rec)
  IN /\ \A i \in 1..Len(out) : \E j \in 1..Len(raw) : out[i] \in ReferenceEntries(raw[j])
     /\ \A j \in 1..Len(raw) : \A e \in ReferenceEntries(raw[j]) :
          Cardinality({i \in 1..Len(out) : out[i] = e})
            = Cardinality({k \in 1..Len(raw) : e \in ReferenceEntries(raw[k])})
     /\ \A i \in 1..Len(out) : \A j \in (i + 1)..Len(out) :
          /\ out[j].primary => out[i].primary
          /\ out[i].primary = out[j].primary => LexLeq(out[i].value, out[j].value)

\* C18: the list normalizeAbhaAddresses returns for a roster record is the
\* reference mapping of that record: the raw list comes from
\* additional_attributes if that holds an array, else from the record, else it
\* is empty; a non-empty string yields {value s, label s, primary false}; an
\* object with a non-empty address yields the address as value, the address
\* suffixed " (primary)" when flagged as label, and the flag; any other object
\* yields its JSON text as value and label, primary false unless flagged;
\* null, empty and other-typed elements yield nothing; primary entries come
\* first and entries with equal flags are in lexicographic order of value.
C18_ReferenceMapping ==
  Len(result) >= 1 => IsReferenceMapping(arg, result[Len(result)])

\* C18 case: three elements under additional_attributes, all kept: a primary
\* entry first, the JSON text of an object without address, and two
\* non-primary entries whose order the values decide
C18_Witness ==
  /\ Len(result) = 1
  /\ arg.additional_attributes.kind = "array"
  /\ arg.abha_addresses.kind = "array"
  /\ Len(arg.additional_attributes.items) = 3
  /\ arg.additional_attributes.items[1].kind = "string"
  /\ arg.additional_attributes.items[1].s = AddrB
  /\ arg.additional_attributes.items[3].kind = "object"
  /\ Flagged(arg.additional_attributes.items[3].obj)
  /\ Len(result[1]) = 3
  /\ result[1][1].primary
  /\ result[1][1].label = AddrA \o PrimarySuffix
  /\ result[1][2].value = JSONstringify([isPrimary |-> FALSE])
  /\ result[1][3].value = AddrB

\* C19: normalizing the returned list again, as the record's address list,
\* returns the same list.
C19_Idempotent ==
  Len(result) = 2 => result[2] = result[1]

\* C20: the list normalizeAbhaAddresses returns holds no two entries with the
\* same value.
C20_Deduplicated ==
  Len(result) >= 1 =>
    \A i \in 1..Len(result[1]) : \A j \in 1..Len(result[1]) :
      result[1][i].value = result[1][j].value => i = j

\* ----------------------------------------------------- occurrence of an entry
\* YYYY-MM-DDTHH:mm or YYYY-MM-DDTHH:mm:ss
IsDateTime(s) ==
  /\ Len(s) \in {16, 19}
  /\ IsYmd(SubSeq(s, 1, 10))
  /\ s[11] = "T" /\ s[14] = ":"
  /\ IsDigits(SubSeq(s, 12, 13)) /\ IsDigits(SubSeq(s, 15, 16))
  /\ Len(s) = 19 => (s[17] = ":" /\ IsDigits(SubSeq(s, 18, 19)))
  /\ Number(SubSeq(s, 6, 7)) \in 1..12
  /\ Number(SubSeq(s, 12, 13)) \in 0..23

\* YYYY-MM-DDTHH:mm:ss+HH:MM or -HH:MM
IsOffsetTimestamp(v) ==
  /\ Len(v) = 25
  /\ IsYmd(SubSeq(v, 1, 10))
  /\ v[11] = "T" /\ v[14] = ":" /\ v[17] = ":" /\ v[20] \in {"+", "-"} /\ v[23] = ":"
  /\ \A i \in {12, 13, 15, 16, 18, 19, 21, 22, 24, 25} : v[i] \in Digits

\* the instant a local date-time string denotes in time zone tz
LocalInstant(s, tz) ==
  DaysFromCivil(Number(SubSeq(s, 1, 4)), Number(SubSeq(s, 6, 7)),
                Number(SubSeq(s, 9, 10))) * 86400
    + Number(SubSeq(s, 12, 13)) * 3600 + Number(SubSeq(s, 15, 16)) * 60
    + (IF Len(s) = 19 THEN Number(SubSeq(s, 18, 19)) ELSE 0) - 60 * tz

\* v is a rendering of the instant t: the UTC rendering of toISOString or a
\* timestamp with an offset
Denotes(v, t, ms) ==
  \/ v = toISOString([t |-> t, ms |-> ms])
  \/ IsOffsetTimestamp(v) /\ InstantOf(v) = t

\* the entry's date is one of the recognized forms
RecognizedDate(s) ==
  IsYmd(StripSpaces(s)) \/ IsDayMonthYear(StripSpaces(s)) \/ IsDateTime(s)

\* C21, dates: YYYY-MM-DD is kept and DD-MM-YYYY, DD/MM/YYYY become YYYY-MM-DD
C21_RecognizedDateOnly ==
  result # <<>> =>
    LET s == arg.occurrenceDate
        r == result[1]
    IN /\ IsYmd(s) => r = Returned(s)
       /\ IsDmy(s) =>
            r = Returned(SubSeq(s, 7, 10) \o <<"-">> \o SubSeq(s, 4, 5)
                           \o <<"-">> \o SubSeq(s, 1, 2))

\* C21, date and time: rendered with the local offset, denoting the same instant
C21_RecognizedDateTime ==
  result # <<>> =>
    LET s == arg.occurrenceDate
        r == result[1]
    IN IsDateTime(s) =>
         /\ r.kind = "return"
         /\ IsOffsetTimestamp(r.value)
         /\ InstantOf(r.value) = LocalInstant(s, arg.tz)

\* C21, fallback: an absent or unrecognized date yields the build-time instant
C21_FallbackToBuildTime ==
  result # <<>> =>
    LET s == arg.occurrenceDate
        r == result[1]
    IN ~RecognizedDate(s) =>
         /\ r.kind = "return"
         /\ Denotes(r.value, arg.now.t, arg.now.ms)

\* C21: the occurrenceDateTime of an entry is the entry's date normalized
\* (YYYY-MM-DD for a date, YYYY-MM-DDTHH:mm:ss with the local offset for a
\* date and time) when the date is one of the recognized forms, and denotes
\* the build-time instant when the date is absent or not recognized; a date
\* that is not recognized is never copied or reordered into the output.
C21_OccurrenceNormalized ==
  /\ C21_RecognizedDateOnly
  /\ C21_RecognizedDateTime
  /\ C21_FallbackToBuildTime

\* ------------------------------------------------------ narrative presence
\* r carries a synthesized narrative whose markup declares the language
HasNarrative(r) ==
  /\ IsSome(r.text)
  /\ Get(r.text).status = "generated"
  /\ Get(r.text).div.lang = "en-IN"

\* C22: every resource in the entry list of a bundle produced by
\* onBuildBundle, whatever its type, carries a narrative with status
\* "generated" and a markup fragment that declares the language tag.
C22_NarrativePresence ==
  (mounted = "App" /\ IsSome(jsonOut)) =>
    \A i \in 1..Len(Get(jsonOut).entry) : HasNarrative(Get(jsonOut).entry[i].resource)

\* ---------------------------------------------------- ordering determinism
\* jsonOut was produced by an invocation later than the one recorded in r,
\* started from the same form state, for which uuidv4 returned the same values
SameInputsAs(r) ==
  /\ IsSome(r.jsonOut)
  /\ IsSome(jsonOut)
  /\ Len(jsonOutSetBy) > 0
  /\ Producer > r.call
  /\ calls[r.call].pc = "done"
  /\ calls[Producer].form = calls[r.call].form
  /\ calls[Producer].ids = calls[r.call].ids
  /\ Get(jsonOut).id = Get(r.jsonOut).id
  /\ Get(jsonOut).identifier = Get(r.jsonOut).identifier

ReadFailed ==
  /\ Len(picks) > 0
  /\ \E j \in 1..Len(picks[Len(picks)].slots) :
       picks[Len(picks)].slots[j].outcome = "error"

\* C24: in the diagnostic report form, when the read of a picked file has
\* failed, a subsequent submit aborts with an error and logs no bundle: the
\* attachment is never silently left out of a bundle.
C24_UnreadableAttachmentAborts ==
  [][(mounted = "DiagnosticReportForm" /\ ReadFailed /\ submits' = submits + 1)
       => (consoleLog' = consoleLog /\ errorMsg' # "")]_vars

\* --------------------------------------------------------- edit surface
\* C25: starting from the one-element lists of the constructed forms, after
\* any sequence of add, update and remove actions made through the UI, the
\* immunizations list of the immunization form and the results and specimens
\* lists of the diagnostic report form each hold at least one element.
C25_EditSurface ==
  /\ Len(immunizations) >= 1
  /\ Len(results) >= 1
  /\ Len(specimens) >= 1

\* C25 case: a row was added and a row other than the last was removed, the
\* list being back at one element, in either form
C25_Witness ==
  \/ /\ mounted = "App"
     /\ edits = 2
     /\ immunizations = <<NewImmunization(EmptyText)>>
  \/ /\ mounted = "DiagnosticReportForm"
     /\ Len(results) = 1 /\ results[1].codeText[2] = 2
     /\ Len(specimens) = 1 /\ specimens[1].typeText[2] = 2

\* -------------------------------------------------- address list recomputed
\* list and chosen are what a selection of sel (None when nothing is
\* selected) must leave: the reference mapping of sel's record and the value of
\* its first element, a primary one when there is one
Recomputed(sel, list, chosen) ==
  IF IsSome(sel)
  THEN /\ IsReferenceMapping(Get(sel), list)
       /\ chosen = (IF Len(list) > 0 THEN list[1].value ELSE <<>>)
       /\ (\E i \in 1..Len(list) : list[i].primary) => list[1].primary
  ELSE list = <<>> /\ chosen = <<>>

\* the roster entry at a zero-based index, None when there is none
EntryAt(list, idx) ==
  IF idx >= 0 /\ idx < Len(list) THEN Some(list[idx + 1]) ELSE None

\* C26: whenever the subject selection changes, the address list is
\* recomputed from scratch: after the step, the list is the normalization of
\* the patient now selected (empty when none is) and the selected address is
\* the value of its first element, a primary address when one exists, or the
\* empty string; nothing of the addresses of the patient selected before
\* remains. In both forms.
C26_AddressListRecomputed ==
  [][/\ (mounted = "App" /\ selectedPatientIdx' # selectedPatientIdx)
          => Recomputed(EntryAt(patients', selectedPatientIdx'), abhaOptions',
                        selectedAbha')
     /\ (mounted = "DiagnosticReportForm"
         /\ diagSelectedPatientIdx' # diagSelectedPatientIdx)
          => Recomputed(EntryAt(patientsList', diagSelectedPatientIdx'),
                        abhaList', diagSelectedAbha')]_vars

\* C26 case: the second roster entry is selected after the first, whose two
\* addresses are gone; in the immunization form an address was chosen by hand
\* before
C26_Witness ==
  \/ /\ mounted = "App"
     /\ selectedPatientIdx = 1
     /\ edits = 2
     /\ abhaOptions = <<[value |-> AddrB, label |-> AddrB, primary |-> FALSE]>>
     /\ selectedAbha = AddrB
  \/ /\ mounted = "DiagnosticReportForm"
     /\ diagSelectedPatientIdx = 1
     /\ patient.name = "Ravi Kumar"
     /\ abhaList = <<[value |-> AddrB, label |-> AddrB, primary |-> FALSE]>>
     /\ diagSelectedAbha = AddrB

\* ------------------------------------------------------- successive picks
AttachmentNames(list) == [i \in 1..Len(list) |-> list[i].name]

\* C27: in the diagnostic report form, once the reads of every pick have
\* finished, the attachments list holds the files of the latest pick: what an
\* earlier handleAttachmentsChange call stores never replaces what a later one
\* stores.
C27_LatestPickWins ==
  (Len(picks) >= 1 /\ \A k \in 1..Len(picks) : picks[k].pc = "done")
    => AttachmentNames(attachments)
         = AttachmentNames(Get(picks[Len(picks)].stored))

\* ----------------------------------------------------- builds and later edits
\* the payload fileToBase64NoPrefix resolves with for element i of toProcess
PayloadAt(f, i) ==
  IF IsSome(toProcess(f)[i])
  THEN fileToBase64NoPrefix(readAsDataURL(Get(toProcess(f)[i])))
  ELSE <<>>

\* the entries of the bundle an invocation produces from the render state f and
\* the identifiers ids when every read succeeds
EntriesFrom(f, ids) ==
  ComposeBundle(f, ids,
                [i \in 1..Len(toProcess(f)) |-> BinaryAt(f, ids, i, PayloadAt(f, i))],
                [i \in 1..Len(toProcess(f)) |-> DocRefAt(f, ids, i)],
                0).entry

\* invocation k executes setJsonOut in this step
Completes(k) ==
  /\ k <= Len(calls')
  /\ calls'[k].pc = "done"
  /\ (k <= Len(calls) => calls[k].pc # "done")

\* C28: a build in progress is isolated from later edits: an invocation keeps
\* the form state and the identifiers it started with whatever is edited while
\* it is suspended on a file read; when it completes, the identifier arrays
\* allocated before the first read and the files decoded after it have the
\* same length, and every entry of the bundle is the one built from the form
\* state at invocation.
C28_BuildIsolated ==
  [][\A k \in 1..Len(calls') :
       /\ k > Len(calls) => calls'[k].form = Form
       /\ k <= Len(calls) =>
            /\ calls'[k].form = calls[k].form
            /\ calls[k].pc = "reading" => calls'[k].ids = calls[k].ids
       /\ Completes(k) =>
            LET f == IF k <= Len(calls) THEN calls[k].form ELSE Form
                c == calls'[k]
            IN /\ Len(c.ids.docBinaryIds) = Len(c.binaries)
               /\ Len(c.ids.docRefIds) = Len(c.docRefs)
               /\ Len(c.binaries) = Len(toProcess(f))
               /\ IsSome(jsonOut')
               /\ Get(jsonOut').entry = EntriesFrom(f, c.ids)]_vars

\* the first invocation has produced the bundle on display although a second
\* invocation, started from an edited form before the first one finished, is
\* still waiting for its file
C28_Witness ==
  /\ Len(calls) = 2
  /\ calls[1].pc = "done"
  /\ calls[2].pc = "reading"
  /\ jsonOutSetBy = <<1>>
  /\ calls[2].form # calls[1].form
  /\ Form # calls[1].form
  /\ calls[2].ids.compId < Get(jsonOut).id[2]
  /\ Get(jsonOut).entry = EntriesFrom(calls[1].form, calls[1].ids)

\* ------------------------------------------------- the Composition section
\* the only section of the Composition of the bundle on display
SectionOf(bundle) == bundle.entry[1].resource.section[1]

\* C29: in every bundle produced by onBuildBundle the Composition section has
\* a non-empty entry list, one entry of which refers to a DocumentReference
\* (real or placeholder), and no section narrative.
C29_SectionHasEntries ==
  IsSome(jsonOut) =>
    /\ Get(jsonOut).entry[1].resource.resourceType = "Composition"
    /\ Len(Get(jsonOut).entry[1].resource.section) = 1
    /\ IsSome(SectionOf(Get(jsonOut)).entry)
    /\ Len(Get(SectionOf(Get(jsonOut)).entry)) > 0
    /\ \E j \in 1..Len(Get(SectionOf(Get(jsonOut)).entry)) :
         Get(SectionOf(Get(jsonOut)).entry)[j].type = "DocumentReference"
    /\ SectionOf(Get(jsonOut)).text = None

\* a bundle was built from a form whose immunizations are all blank and which
\* has no recommendation
C29_Witness ==
  /\ IsSome(jsonOut)
  /\ Len(jsonOutSetBy) > 0
  /\ LET f == calls[Producer].form
     IN /\ ~hasImms(f)
        /\ Len(f.immunizations) > 0
        /\ calls[Producer].ids.immRecId = Null
  /\ SectionOf(Get(jsonOut)).text = None
  /\ Len(Get(SectionOf(Get(jsonOut)).entry)) > Len(calls[Producer].form.immunizations)

\* ------------------------------------------------- files and their names
\* filePreviewNames names the elements of files, index by index
NamesAgree(fs, names) ==
  /\ Len(names) = Len(fs)
  /\ \A i \in 1..Len(fs) : names[i] = fs[i].name

\* list without its element at the zero-based index i, the rest in order
WithoutIndex(list, i) == SubSeq(list, 1, i) \o SubSeq(list, i + 2, Len(list))

\* C30: after any sequence of onFilesPicked and removeFileAtIndex actions the
\* files list and the filePreviewNames list have the same length and
\* filePreviewNames[i] is the name of files[i] for every index i;
\* removeFileAtIndex(i) removes exactly the i-th element of both lists and
\* leaves the other elements and their order unchanged.
C30_FilesAndNames ==
  [][/\ NamesAgree(files, filePreviewNames)
     /\ NamesAgree(files', filePreviewNames')
     /\ removeFileAtIndex =>
          \E i \in 0..(Len(files) - 1) :
            /\ files' = WithoutIndex(files, i)
            /\ filePreviewNames' = WithoutIndex(filePreviewNames, i)]_vars

\* one of two picked files was removed: the other one and its name remain,
\* and the file input was cleared
C30_Witness ==
  /\ mounted = "App"
  /\ Len(files) = 1
  /\ fileInputValue = ""
  /\ \E f \in PickableFiles : files = <<f>> /\ filePreviewNames = <<f.name>>

====
